---- MODULE Spec2Model ----
(***************************************************************************)
(* WorkLogDash: the time-slot generator (shared/schema.ts), the clock      *)
(* resolver (client timeUtils / useTimezoneTime), the work-log and         *)
(* work-preferences routes with their storage, and the password reset of   *)
(* the auth service (server).                                              *)
(*                                                                         *)
(* JavaScript strings are sequences of UTF-16 code units, so that          *)
(* formatting, parsing, trimming and the lexicographic comparison of       *)
(* strings are computed as the code computes them.  "09:00" is             *)
(* <<48, 57, 58, 48, 48>>.                                                 *)
(***************************************************************************)
EXTENDS Integers, Sequences, FiniteSets, Bags, TLC

VARIABLES
    gen,                  \* one call of generateTimeSlots: its arguments, locals and position
    clock,                \* the useTimezoneTime hook: the instant, its props and its state
    workLogs,             \* table work_logs: a bag of rows (no unique key but id)
    userWorkPreferences,  \* table user_work_preferences: a set of rows, userId unique
    req,                  \* the PUT /api/work-logs requests in flight, one per connection
    lastWrite,            \* history: per (userId, date, timeSlot), the description last written
    response,             \* the response of the request handled last
    auth                  \* users' passwords, table password_reset_tokens, the auth calls in flight

vars == <<gen, clock, workLogs, userWorkPreferences, req, lastWrite, response, auth>>

(***************************************************************************)
(* Bounds of the model.                                                    *)
(***************************************************************************)
\* generateTimeSlots is cut off after this many pushed slots (a call with a
\* non-positive duration never leaves its loop).
MaxSlots == 40
\* createWorkLog is not taken once the table holds this many rows.
MaxRows == 2
\* a select returning up to this many rows returns them in every order.
MaxPermuted == 3

(***************************************************************************)
(* Strings.                                                                *)
(***************************************************************************)
Colon == <<58>>
Zero == <<48>>

\* 'a < b' on strings: code unit by code unit, a proper prefix is smaller.
RECURSIVE StrLt(_, _)
StrLt(a, b) ==
    IF b = <<>> THEN FALSE
    ELSE IF a = <<>> THEN TRUE
    ELSE IF Head(a) # Head(b) THEN Head(a) < Head(b)
    ELSE StrLt(Tail(a), Tail(b))

\* 'a <= b' and 'a >= b' on strings
StrLeqStrict(a, b) == StrLt(a, b)
StrLeq(a, b) == ~StrLt(b, a)
StrGeq(a, b) == ~StrLt(a, b)

\* Number.prototype.toString of a non-negative integer.
RECURSIVE NumToString(_)
NumToString(n) ==
    IF n < 10 THEN <<48 + n>>
    ELSE NumToString(n \div 10) \o <<48 + (n % 10)>>

\* s.padStart(2, '0')
PadStart2(s) == IF Len(s) >= 2 THEN s ELSE IF Len(s) = 1 THEN Zero \o s ELSE Zero \o Zero

IsDigit(c) == c >= 48 /\ c <= 57

\* parseInt of a string of decimal digits.
RECURSIVE ParseInt(_)
ParseInt(s) ==
    IF s = <<>> THEN 0
    ELSE ParseInt(SubSeq(s, 1, Len(s) - 1)) * 10 + (s[Len(s)] - 48)

(***************************************************************************)
(* Dates.  A Date of the local day 2000-01-01 is the number of minutes     *)
(* since that day's midnight (negative: the day before).                   *)
(***************************************************************************)
\* new Date(`2000-01-01T${s}:00`) for a zero-padded HH:MM string.
ParseTime(s) == ParseInt(SubSeq(s, 1, 2)) * 60 + ParseInt(SubSeq(s, 4, 5))

GetHours(t) == (t \div 60) % 24
GetMinutes(t) == t % 60

\* `${hours.toString().padStart(2,'0')}:${minutes.toString().padStart(2,'0')}`
FormatNoPad(t) == NumToString(GetHours(t)) \o Colon \o NumToString(GetMinutes(t))
FormatTime(t) ==
    PadStart2(NumToString(GetHours(t))) \o Colon \o PadStart2(NumToString(GetMinutes(t)))

(***************************************************************************)
(* generateTimeSlots (shared/schema.ts), statement by statement.           *)
(***************************************************************************)
S0800 == <<48, 56, 58, 48, 48>>
S0900 == <<48, 57, 58, 48, 48>>
S0930 == <<48, 57, 58, 51, 48>>
S1000 == <<49, 48, 58, 48, 48>>
S1100 == <<49, 49, 58, 48, 48>>
S1200 == <<49, 50, 58, 48, 48>>
S1300 == <<49, 51, 58, 48, 48>>
S1400 == <<49, 52, 58, 48, 48>>
S1500 == <<49, 53, 58, 48, 48>>
S1600 == <<49, 54, 58, 48, 48>>
S1700 == <<49, 55, 58, 48, 48>>
S2345 == <<50, 51, 58, 52, 53>>

GenTimes == {S0800, S0900, S0930, S1000, S1600, S1700}
GenDurations == {-30, 0, 15, 30, 45, 60}

\* while (current < end)
WhileCondLeq(current, end) == current <= end
WhileCond(current, end) == current < end

\* current.setMinutes(current.getMinutes() + slotDurationMinutes)
AdvanceDouble(current, slotDurationMinutes) == current + 2 * slotDurationMinutes
Advance(current, slotDurationMinutes) == current + slotDurationMinutes

\* the pushed label
SlotLabel(current) == FormatTime(current)

GenIdle == [pc |-> "idle", startTime |-> <<>>, endTime |-> <<>>, slotDurationMinutes |-> 0,
            end |-> 0, current |-> 0, slots |-> <<>>]

GenInit ==
    \E s \in GenTimes, e \in GenTimes, d \in GenDurations :
        gen = [pc |-> "called", startTime |-> s, endTime |-> e, slotDurationMinutes |-> d,
               end |-> 0, current |-> 0, slots |-> <<>>]

\* const slots = []; start, end = new Date(...); let current = new Date(start)
GenEnter ==
    /\ gen.pc = "called"
    /\ gen' = [gen EXCEPT !.pc = "loop",
                          !.end = ParseTime(gen.endTime),
                          !.current = ParseTime(gen.startTime)]
    /\ UNCHANGED <<clock, workLogs, userWorkPreferences, req, lastWrite, response, auth>>

\* one iteration of the loop
GenIterate ==
    /\ gen.pc = "loop"
    /\ WhileCond(gen.current, gen.end)
    /\ Len(gen.slots) < MaxSlots
    /\ gen' = [gen EXCEPT !.slots = Append(gen.slots, SlotLabel(gen.current)),
                          !.current = Advance(gen.current, gen.slotDurationMinutes)]
    /\ UNCHANGED <<clock, workLogs, userWorkPreferences, req, lastWrite, response, auth>>

\* the loop condition fails: return slots
GenReturn ==
    /\ gen.pc = "loop"
    /\ ~WhileCond(gen.current, gen.end)
    /\ gen' = [gen EXCEPT !.pc = "done"]
    /\ UNCHANGED <<clock, workLogs, userWorkPreferences, req, lastWrite, response, auth>>

\* The same function as an operator, for the callers that pass a positive duration.
RECURSIVE GenLoop(_, _, _, _)
GenLoop(current, end, slotDurationMinutes, slots) ==
    IF WhileCond(current, end)
    THEN GenLoop(Advance(current, slotDurationMinutes), end, slotDurationMinutes,
                 Append(slots, SlotLabel(current)))
    ELSE slots

generateTimeSlots(startTime, endTime, slotDurationMinutes) ==
    GenLoop(ParseTime(startTime), ParseTime(endTime), slotDurationMinutes, <<>>)

(***************************************************************************)
(* The clock resolver: timeUtils.ts and the useTimezoneTime hook.          *)
(* An instant is the UTC minute of the day; a timezone shifts it.          *)
(***************************************************************************)
MinutesPerDay == 24 * 60

\* Intl's wall-clock offset of the zones the model uses (standard time).
TzOffset(timezone) ==
    CASE timezone = "UTC" -> 0
      [] timezone = "Asia/Kolkata" -> 330
      [] timezone = "America/New_York" -> -300

\* getDateInTimezone(new Date(), timezone): a Date showing the zone's wall clock
getDateInTimezone(now, timezone) == (now + TzOffset(timezone)) % MinutesPerDay

\* null, for a slot
NullSlot == <<>>

RECURSIVE FirstSlotAfter(_, _)
FirstSlotAfter(currentTime, userTimeSlots) ==
    IF userTimeSlots = <<>> THEN NullSlot
    ELSE IF StrLt(currentTime, Head(userTimeSlots)) THEN Head(userTimeSlots)
    ELSE FirstSlotAfter(currentTime, Tail(userTimeSlots))

\* for (const slot of userTimeSlots) if (currentTime <= slot) return slot
RECURSIVE FirstSlotFrom(_, _)
FirstSlotFrom(currentTime, userTimeSlots) ==
    IF userTimeSlots = <<>> THEN NullSlot
    ELSE IF StrLeq(currentTime, Head(userTimeSlots)) THEN Head(userTimeSlots)
    ELSE FirstSlotFrom(currentTime, Tail(userTimeSlots))

getCurrentTimeSlot(userTimeSlots, timezone, now) ==
    IF Len(userTimeSlots) = 0 THEN NullSlot
    ELSE FirstSlotFrom(FormatTime(getDateInTimezone(now, timezone)), userTimeSlots)

isWorkingHoursExclusiveEnd(startTime, endTime, timezone, now) ==
    LET currentTime == FormatTime(getDateInTimezone(now, timezone))
    IN  StrGeq(currentTime, startTime) /\ StrLt(currentTime, endTime)
isWorkingHours(startTime, endTime, timezone, now) ==
    LET currentTime == FormatTime(getDateInTimezone(now, timezone))
    IN  StrGeq(currentTime, startTime) /\ StrLeq(currentTime, endTime)

\* The props of the hook: useISTTime() passes a zone only, useUserTime() the
\* user's preferences and the slots generated from them.
ClockProps ==
    { [timezone |-> "Asia/Kolkata", startTime |-> S0900, endTime |-> S1700,
       userTimeSlots |-> <<>>],
      [timezone |-> "UTC", startTime |-> S0900, endTime |-> S1700,
       userTimeSlots |-> generateTimeSlots(S0900, S1700, 60)],
      [timezone |-> "America/New_York", startTime |-> S0930, endTime |-> S1000,
       userTimeSlots |-> generateTimeSlots(S0930, S1000, 15)],
      [timezone |-> "Asia/Kolkata", startTime |-> S0800, endTime |-> S2345,
       userTimeSlots |-> generateTimeSlots(S0800, S2345, 60)] }

ClockIdle == [now |-> 0, props |-> [timezone |-> "UTC", startTime |-> S0900,
                                    endTime |-> S1700, userTimeSlots |-> <<>>],
              currentTimeSlot |-> NullSlot, isWorkHours |-> FALSE, fresh |-> FALSE]

\* useState(null), useState(false); the effect has not run yet
ClockInit ==
    \E p \in ClockProps :
        clock = [now |-> 0, props |-> p, currentTimeSlot |-> NullSlot,
                 isWorkHours |-> FALSE, fresh |-> FALSE]

\* a minute passes
Tick ==
    /\ clock' = [clock EXCEPT !.now = (clock.now + 1) % MinutesPerDay, !.fresh = FALSE]
    /\ UNCHANGED <<gen, workLogs, userWorkPreferences, req, lastWrite, response, auth>>

\* updateTime, run by the effect and by its interval
UpdateTime ==
    LET timezoneDate == getDateInTimezone(clock.now, clock.props.timezone)
        currentTimeFormatted == FormatTime(timezoneDate)
        foundSlot == IF Len(clock.props.userTimeSlots) > 0
                     THEN FirstSlotFrom(currentTimeFormatted, clock.props.userTimeSlots)
                     ELSE NullSlot
    IN  /\ clock' = [clock EXCEPT
                       !.isWorkHours = StrGeq(currentTimeFormatted, clock.props.startTime)
                                       /\ StrLeq(currentTimeFormatted, clock.props.endTime),
                       !.currentTimeSlot = foundSlot,
                       !.fresh = TRUE]
        /\ UNCHANGED <<gen, workLogs, userWorkPreferences, req, lastWrite, response, auth>>

(***************************************************************************)
(* Storage: the tables of shared/schema.ts and DatabaseStorage.            *)
(***************************************************************************)
\* more strings: "holiday", "api", "work-logs", "work-preferences", "2024-02-10"
SHoliday == <<104, 111, 108, 105, 100, 97, 121>>
SApi == <<97, 112, 105>>
SWorkLogs == <<119, 111, 114, 107, 45, 108, 111, 103, 115>>
SWorkPreferences == <<119, 111, 114, 107, 45, 112, 114, 101, 102, 101, 114, 101, 110, 99, 101, 115>>
D0210 == <<50, 48, 50, 52, 45, 48, 50, 45, 49, 48>>
\* "", " ", "api", "ui", "15", "30", "45", "60"
DescEmpty == <<>>
DescBlank == <<32>>
DescApi == <<97, 112, 105>>
DescUi == <<117, 105>>
S15 == <<49, 53>>
S30 == <<51, 48>>
S45 == <<52, 53>>
S60 == <<54, 48>>

\* req.user.id of the authenticated session
Users == {"u1"}

WorkLogRow(userId, date, timeSlot, workDescription, isHoliday) ==
    [userId |-> userId, date |-> date, timeSlot |-> timeSlot,
     workDescription |-> workDescription, isHoliday |-> isHoliday]

RECURSIVE SumCopies(_, _)
SumCopies(bag, rows) ==
    IF rows = {} THEN 0
    ELSE LET r == CHOOSE x \in rows : TRUE
         IN  bag[r] + SumCopies(bag, rows \ {r})

\* the rows of a bag that satisfy a WHERE clause, as a bag
Where(bag, Cond(_)) ==
    LET keep == {r \in BagToSet(bag) : Cond(r)}
    IN  [r \in keep |-> bag[r]]

\* getWorkLogsByDate: select ... where userId = and date =
getWorkLogsByDate(logs, userId, date) ==
    LET Cond(r) == r.userId = userId /\ r.date = date
    IN  Where(logs, Cond)

\* getWorkLog: the rows its select returns; the caller takes the first of
\* them, in an order the query does not fix
getWorkLog(logs, userId, date, timeSlot) ==
    {r \in BagToSet(logs) : r.userId = userId /\ r.date = date /\ r.timeSlot = timeSlot}

\* createWorkLog: insert one row; nothing makes (userId, date, timeSlot) unique
createWorkLog(logs, row) == logs (+) SetToBag({row})

\* { ...updates } over a row: the fields an update carries
ApplyUpdates(row, updates) ==
    [row EXCEPT !.workDescription = IF updates.hasDescription THEN updates.workDescription
                                    ELSE @,
                !.isHoliday = IF updates.hasHoliday THEN updates.isHoliday ELSE @]

\* updateWorkLog: update every row the WHERE clause matches
updateWorkLog(logs, userId, date, timeSlot, updates) ==
    LET Hit(r) == r.userId = userId /\ r.date = date /\ r.timeSlot = timeSlot
        New(r) == IF Hit(r) THEN ApplyUpdates(r, updates) ELSE r
        after == {New(r) : r \in BagToSet(logs)}
    IN  [n \in after |-> SumCopies(logs, {r \in BagToSet(logs) : New(r) = n})]

\* storage.getUserWorkPreferences: the user's row, if any
getUserWorkPreferences(prefs, userId) == {r \in prefs : r.userId = userId}

PreferencesRow(userId, data) ==
    [userId |-> userId, startTime |-> data.startTime, endTime |-> data.endTime,
     slotDurationMinutes |-> data.slotDurationMinutes, timezone |-> data.timezone]

\* storage.createWorkPreferences: insert the row
createWorkPreferences(prefs, userId, data) == prefs \cup {PreferencesRow(userId, data)}

\* storage.updateWorkPreferences: update the user's row
updateWorkPreferences(prefs, userId, data) ==
    {IF r.userId = userId THEN PreferencesRow(userId, data) ELSE r : r \in prefs}

\* the defaults of GET /api/work-preferences
DefaultPreferences ==
    [startTime |-> S0900, endTime |-> S1700, slotDurationMinutes |-> S60, timezone |-> "UTC"]

(***************************************************************************)
(* The routes (registerRoutes), in the order they are registered.          *)
(***************************************************************************)
\* userPreferences ? generateTimeSlots(start, end, parseInt(duration))
\*                 : generateTimeSlots('09:00', '17:00', 60)
UserTimeSlots(userPreferences) ==
    IF userPreferences = {} THEN generateTimeSlots(S0900, S1700, 60)
    ELSE LET p == CHOOSE r \in userPreferences : TRUE
         IN  generateTimeSlots(p.startTime, p.endTime, ParseInt(p.slotDurationMinutes))

\* a comparison of the hours only
IncludesHour(seq, x) == \E i \in 1..Len(seq) : SubSeq(seq[i], 1, 2) = SubSeq(x, 1, 2)

\* userTimeSlots.includes(timeSlot)
Includes(seq, x) == \E i \in 1..Len(seq) : seq[i] = x

Lit(text) == [param |-> FALSE, text |-> text]
Param == [param |-> TRUE, text |-> <<>>]

\* app.put(...) calls, first registered first
PutRoutes ==
    << [handler |-> "putWorkPreferences", path |-> <<Lit(SApi), Lit(SWorkPreferences)>>],
       [handler |-> "putWorkLog", path |-> <<Lit(SApi), Lit(SWorkLogs), Param, Param>>],
       [handler |-> "putHoliday", path |-> <<Lit(SApi), Lit(SWorkLogs), Param, Lit(SHoliday)>>] >>

PathMatches(pattern, path) ==
    /\ Len(pattern) = Len(path)
    /\ \A i \in 1..Len(pattern) : pattern[i].param \/ pattern[i].text = path[i]

\* Express runs the first registered route whose path matches
RECURSIVE FirstMatch(_, _)
FirstMatch(routes, path) ==
    IF routes = <<>> THEN "notFound"
    ELSE IF PathMatches(Head(routes).path, path) THEN Head(routes).handler
    ELSE FirstMatch(Tail(routes), path)

MatchPut(path) == FirstMatch(PutRoutes, path)

\* A request body of the work-log routes: the fields it carries.
LogBody(hasDescription, workDescription, hasHoliday, isHoliday) ==
    [hasDescription |-> hasDescription, workDescription |-> workDescription,
     hasHoliday |-> hasHoliday, isHoliday |-> isHoliday]

\* what the handler passes to updateWorkLog: validation.data, or { isHoliday }
UpdatesOf(handler, body) ==
    IF handler = "putWorkLog" THEN body
    ELSE LogBody(FALSE, <<>>, body.hasHoliday, body.isHoliday)

\* what the handler passes to createWorkLog: workDescription || "", isHoliday || false
InsertOf(handler, userId, date, timeSlot, body) ==
    IF handler = "putWorkLog"
    THEN WorkLogRow(userId, date, timeSlot,
                    IF body.hasDescription THEN body.workDescription ELSE <<>>,
                    body.hasHoliday /\ body.isHoliday)
    ELSE WorkLogRow(userId, date, timeSlot, <<>>, body.hasHoliday /\ body.isHoliday)

\* if (existing) updateWorkLog(...) else createWorkLog(...)
UpsertWith(logs, existing, handler, userId, date, timeSlot, body) ==
    IF existing
    THEN updateWorkLog(logs, userId, date, timeSlot, UpdatesOf(handler, body))
    ELSE createWorkLog(logs, InsertOf(handler, userId, date, timeSlot, body))

\* the description a write stores in its row (or leaves as it is)
WritesDescription(existing, handler, body) ==
    ~existing \/ (handler = "putWorkLog" /\ body.hasDescription)
WrittenDescription(existing, handler, body) ==
    IF handler = "putWorkLog" /\ body.hasDescription THEN body.workDescription ELSE <<>>

(***************************************************************************)
(* The work-log write requests, one step per storage call.                 *)
(***************************************************************************)
NumProcs == 2
Procs == 1..NumProcs

ReqDates == {D0210}
ReqSlots == {S0900, S0930, SHoliday}
ReqBodies == { LogBody(TRUE, DescApi, FALSE, FALSE),
               LogBody(TRUE, DescUi, FALSE, FALSE),
               LogBody(FALSE, <<>>, TRUE, TRUE) }
PrefBodies ==
    { [startTime |-> S0900, endTime |-> S1000, slotDurationMinutes |-> S30, timezone |-> "UTC"],
      [startTime |-> S1000, endTime |-> S0900, slotDurationMinutes |-> S30, timezone |-> "UTC"],
      [startTime |-> S0900, endTime |-> S1000, slotDurationMinutes |-> S45, timezone |-> "UTC"] }

ReqIdle == [pc |-> "idle", handler |-> "none", userId |-> "none", date |-> <<>>,
            timeSlot |-> <<>>, body |-> LogBody(FALSE, <<>>, FALSE, FALSE),
            targets |-> <<>>, slotPc |-> <<>>, status |-> 0]

NoResponse == [kind |-> "none"]

\* PUT /api/work-logs/{date}/{timeSlot} arrives: the first matching route's
\* handler reads the user's preferences, and the slot route validates its slot
Receive(p, userId, date, timeSlot, body) ==
    LET handler == MatchPut(<<SApi, SWorkLogs, date, timeSlot>>)
        userPreferences == getUserWorkPreferences(userWorkPreferences, userId)
        userTimeSlots == UserTimeSlots(userPreferences)
        targets == IF handler = "putWorkLog" THEN <<timeSlot>> ELSE userTimeSlots
        invalid == handler = "putWorkLog" /\ ~Includes(userTimeSlots, timeSlot)
        call == [ReqIdle EXCEPT !.handler = handler, !.userId = userId, !.date = date,
                                !.timeSlot = timeSlot, !.body = body]
    IN  /\ req[p].pc = "idle"
        /\ req' = [req EXCEPT ![p] =
                     IF invalid THEN [call EXCEPT !.pc = "done", !.status = 400]
                     ELSE IF targets = <<>> THEN [call EXCEPT !.pc = "done", !.status = 200]
                     ELSE [call EXCEPT !.pc = "upsert", !.targets = targets,
                                       !.slotPc = [i \in 1..Len(targets) |-> "todo"]]]
        /\ UNCHANGED <<gen, clock, workLogs, userWorkPreferences, lastWrite, response, auth>>

\* const existing = await storage.getWorkLog(userId, date, timeSlot)
Get(p, i) ==
    /\ req[p].pc = "upsert"
    /\ i \in 1..Len(req[p].targets)
    /\ req[p].slotPc[i] = "todo"
    /\ LET existing == getWorkLog(workLogs, req[p].userId, req[p].date, req[p].targets[i]) # {}
       IN  req' = [req EXCEPT ![p].slotPc[i] = IF existing THEN "found" ELSE "missing"]
    /\ UNCHANGED <<gen, clock, workLogs, userWorkPreferences, lastWrite, response, auth>>

\* await storage.updateWorkLog(...) or await storage.createWorkLog(...); the
\* response goes out when every slot of the request is written
Write(p, i) ==
    /\ req[p].pc = "upsert"
    /\ i \in 1..Len(req[p].targets)
    /\ req[p].slotPc[i] \in {"found", "missing"}
    /\ LET r == req[p]
           existing == r.slotPc[i] = "found"
           slotPc == [r.slotPc EXCEPT ![i] = "done"]
           finished == \A j \in 1..Len(slotPc) : slotPc[j] = "done"
       IN  /\ existing \/ BagCardinality(workLogs) < MaxRows
           /\ workLogs' = UpsertWith(workLogs, existing, r.handler, r.userId, r.date,
                                     r.targets[i], r.body)
           /\ lastWrite' = IF WritesDescription(existing, r.handler, r.body)
                           THEN (<<r.userId, r.date, r.targets[i]>> :>
                                    WrittenDescription(existing, r.handler, r.body)) @@ lastWrite
                           ELSE lastWrite
           /\ req' = [req EXCEPT ![p].slotPc = slotPc,
                                 ![p].pc = IF finished THEN "done" ELSE "upsert",
                                 ![p].status = IF finished THEN 200 ELSE 0]
    /\ UNCHANGED <<gen, clock, userWorkPreferences, response, auth>>

\* the response is sent and the connection serves its next request
Finish(p) ==
    /\ req[p].pc = "done"
    /\ req' = [req EXCEPT ![p] = ReqIdle]
    /\ UNCHANGED <<gen, clock, workLogs, userWorkPreferences, lastWrite, response, auth>>

(***************************************************************************)
(* The work-preferences routes.                                            *)
(***************************************************************************)
\* /^([0-1]?[0-9]|2[0-3]):[0-5][0-9]$/
MatchesTimeRegex(s) ==
    \/ /\ Len(s) = 5
       /\ \/ s[1] \in {48, 49} /\ IsDigit(s[2])
          \/ s[1] = 50 /\ s[2] \in 48..51
       /\ s[3] = 58 /\ s[4] \in 48..53 /\ IsDigit(s[5])
    \/ /\ Len(s) = 4
       /\ IsDigit(s[1]) /\ s[2] = 58 /\ s[3] \in 48..53 /\ IsDigit(s[4])

\* new Date(`2000-01-01T${s}:00`) is a valid Date only if s has the two-digit
\* hour and minute of the date-time string format; otherwise it is Invalid Date
IsTimeOfDay(s) ==
    /\ Len(s) = 5
    /\ IsDigit(s[1]) /\ IsDigit(s[2]) /\ s[3] = 58 /\ IsDigit(s[4]) /\ IsDigit(s[5])
    /\ ParseInt(SubSeq(s, 4, 5)) <= 59
    /\ \/ ParseInt(SubSeq(s, 1, 2)) <= 23
       \/ ParseInt(SubSeq(s, 1, 2)) = 24 /\ ParseInt(SubSeq(s, 4, 5)) = 0

\* start < end of the refinement: false when either Date is invalid (NaN)
StartBeforeEndOrEqual(startTime, endTime) ==
    /\ IsTimeOfDay(startTime) /\ IsTimeOfDay(endTime)
    /\ ParseTime(startTime) <= ParseTime(endTime)
StartBeforeEnd(startTime, endTime) ==
    /\ IsTimeOfDay(startTime) /\ IsTimeOfDay(endTime)
    /\ ParseTime(startTime) < ParseTime(endTime)

\* workPreferencesSchema.safeParse(req.body).success
ValidPreferences(data) ==
    /\ MatchesTimeRegex(data.startTime)
    /\ MatchesTimeRegex(data.endTime)
    /\ data.slotDurationMinutes \in {S15, S30, S60}
    /\ data.timezone # ""
    /\ StartBeforeEnd(data.startTime, data.endTime)

\* GET /api/work-preferences: the user's row, created with the defaults if missing
GetWorkPreferences(userId) ==
    /\ getUserWorkPreferences(userWorkPreferences, userId) = {}
    /\ userWorkPreferences' = createWorkPreferences(userWorkPreferences, userId, DefaultPreferences)
    /\ response' = [kind |-> "workPreferences", status |-> 200, userId |-> userId]
    /\ UNCHANGED <<gen, clock, workLogs, req, lastWrite, auth>>

\* PUT /api/work-preferences
PutWorkPreferences(userId, data) ==
    /\ IF ~ValidPreferences(data)
       THEN /\ response' = [kind |-> "putWorkPreferences", status |-> 400,
                            userId |-> userId, request |-> data]
            /\ UNCHANGED userWorkPreferences
       ELSE /\ response' = [kind |-> "putWorkPreferences", status |-> 200,
                            userId |-> userId, request |-> data]
            /\ userWorkPreferences' =
                 IF getUserWorkPreferences(userWorkPreferences, userId) # {}
                 THEN updateWorkPreferences(userWorkPreferences, userId, data)
                 ELSE createWorkPreferences(userWorkPreferences, userId, data)
    /\ UNCHANGED <<gen, clock, workLogs, req, lastWrite, auth>>

(***************************************************************************)
(* JavaScript numbers where the summaries divide: a non-negative rational  *)
(* n/d in lowest terms, NaN or Infinity.  (The schedules of the model have *)
(* 2 or 8 slots, for which the doubles of the code are exact.)             *)
(***************************************************************************)
RECURSIVE GCD(_, _)
GCD(a, b) == IF b = 0 THEN a ELSE GCD(b, a % b)

Frac(n, d) == LET g == GCD(n, d) IN [tag |-> "num", n |-> n \div g, d |-> d \div g]
Num(n) == [tag |-> "num", n |-> n, d |-> 1]
NaN == [tag |-> "NaN", n |-> 0, d |-> 1]
Infinity == [tag |-> "Infinity", n |-> 0, d |-> 1]

\* a / b
JsDiv(a, b) ==
    IF a.tag # "num" \/ b.tag # "num" THEN NaN
    ELSE IF b.n = 0 THEN (IF a.n = 0 THEN NaN ELSE Infinity)
    ELSE Frac(a.n * b.d, a.d * b.n)

\* a * b
JsMul(a, b) ==
    IF a.tag = "NaN" \/ b.tag = "NaN" THEN NaN
    ELSE IF a.tag = "Infinity" THEN (IF b.tag = "num" /\ b.n = 0 THEN NaN ELSE Infinity)
    ELSE IF b.tag = "Infinity" THEN (IF a.n = 0 THEN NaN ELSE Infinity)
    ELSE Frac(a.n * b.n, a.d * b.d)

\* Math.round(x): the nearest integer, a half rounds up; NaN and Infinity stay
MathRound(x) == IF x.tag # "num" THEN x ELSE Num((2 * x.n + x.d) \div (2 * x.d))

(***************************************************************************)
(* More string functions.                                                  *)
(***************************************************************************)
IsWhiteSpace(c) == c \in {9, 10, 11, 12, 13, 32, 160}

RECURSIVE TrimStart(_)
TrimStart(s) == IF s # <<>> /\ IsWhiteSpace(Head(s)) THEN TrimStart(Tail(s)) ELSE s

RECURSIVE TrimEnd(_)
TrimEnd(s) ==
    IF s # <<>> /\ IsWhiteSpace(s[Len(s)]) THEN TrimEnd(SubSeq(s, 1, Len(s) - 1)) ELSE s

\* s.trim()
Trim(s) == TrimEnd(TrimStart(s))

\* s.toLowerCase(), for the letters A-Z
ToLowerCase(s) == [i \in 1..Len(s) |-> IF s[i] >= 65 /\ s[i] <= 90 THEN s[i] + 32 ELSE s[i]]

\* s.includes(sub)
StrIncludes(s, sub) ==
    \E i \in 0..(Len(s) - Len(sub)) : SubSeq(s, i + 1, i + Len(sub)) = sub

KwFrontend == <<102, 114, 111, 110, 116, 101, 110, 100>>
KwReact == <<114, 101, 97, 99, 116>>
KwUi == <<117, 105>>
KwBackend == <<98, 97, 99, 107, 101, 110, 100>>
KwApi == <<97, 112, 105>>
KwServer == <<115, 101, 114, 118, 101, 114>>
KwReview == <<114, 101, 118, 105, 101, 119>>
KwCodeReview == <<99, 111, 100, 101, 32, 114, 101, 118, 105, 101, 119>>
KwMeeting == <<109, 101, 101, 116, 105, 110, 103>>
KwStandup == <<115, 116, 97, 110, 100, 117, 112>>
KwDocumentation == <<100, 111, 99, 117, 109, 101, 110, 116, 97, 116, 105, 111, 110>>
KwDocs == <<100, 111, 99, 115>>
KwTesting == <<116, 101, 115, 116, 105, 110, 103>>
KwTest == <<116, 101, 115, 116>>
KwDeployment == <<100, 101, 112, 108, 111, 121, 109, 101, 110, 116>>
KwDeploy == <<100, 101, 112, 108, 111, 121>>
\* "Holiday"
TextHoliday == <<72, 111, 108, 105, 100, 97, 121>>

(***************************************************************************)
(* GET /api/work-logs/daily-summary/{date}.                                *)
(***************************************************************************)
\* the orders in which a select may return the rows of a bag
RECURSIVE Orderings(_)
Orderings(bag) ==
    IF BagToSet(bag) = {} THEN {<<>>}
    ELSE UNION { {<<r>> \o rest : rest \in Orderings(bag (-) SetToBag({r}))} :
                 r \in BagToSet(bag) }

\* a total order of rows, to name the orders a select may return
RowBefore(a, b) ==
    \/ StrLt(a.date, b.date)
    \/ a.date = b.date /\ StrLt(a.timeSlot, b.timeSlot)
    \/ a.date = b.date /\ a.timeSlot = b.timeSlot /\ StrLt(a.workDescription, b.workDescription)
    \/ a.date = b.date /\ a.timeSlot = b.timeSlot /\ a.workDescription = b.workDescription
          /\ ~a.isHoliday /\ b.isHoliday

RECURSIVE AscendingRows(_)
AscendingRows(bag) ==
    IF BagToSet(bag) = {} THEN <<>>
    ELSE LET r == CHOOSE x \in BagToSet(bag) : \A y \in BagToSet(bag) \ {x} : RowBefore(x, y)
         IN  <<r>> \o AscendingRows(bag (-) SetToBag({r}))

Reverse(seq) == [i \in 1..Len(seq) |-> seq[Len(seq) + 1 - i]]

Rotations(seq) ==
    {SubSeq(seq, k, Len(seq)) \o SubSeq(seq, 1, k - 1) : k \in 1..Len(seq)} \cup {seq}

\* the orders in which a select without ORDER BY returns its rows: every
\* order of a small result, the rotations of the key order and their
\* reversals of a larger one
SelectOrders(bag) ==
    IF BagCardinality(bag) <= MaxPermuted THEN Orderings(bag)
    ELSE LET rotations == Rotations(AscendingRows(bag))
         IN  rotations \cup {Reverse(seq) : seq \in rotations}

\* the if / else-if chain over description.includes(...)
WorkAreaReviewFirst(description) ==
    IF StrIncludes(description, KwReview) THEN "Code Review"
    ELSE IF StrIncludes(description, KwFrontend) \/ StrIncludes(description, KwReact)
          \/ StrIncludes(description, KwUi)
    THEN "Frontend Development"
    ELSE IF StrIncludes(description, KwBackend) \/ StrIncludes(description, KwApi)
          \/ StrIncludes(description, KwServer)
    THEN "Backend Development"
    ELSE "Other"
WorkAreaOf(description) ==
    IF StrIncludes(description, KwFrontend) \/ StrIncludes(description, KwReact)
          \/ StrIncludes(description, KwUi)
    THEN "Frontend Development"
    ELSE IF StrIncludes(description, KwBackend) \/ StrIncludes(description, KwApi)
          \/ StrIncludes(description, KwServer)
    THEN "Backend Development"
    ELSE IF StrIncludes(description, KwReview) \/ StrIncludes(description, KwCodeReview)
    THEN "Code Review"
    ELSE IF StrIncludes(description, KwMeeting) \/ StrIncludes(description, KwStandup)
    THEN "Meetings"
    ELSE IF StrIncludes(description, KwDocumentation) \/ StrIncludes(description, KwDocs)
    THEN "Documentation"
    ELSE IF StrIncludes(description, KwTesting) \/ StrIncludes(description, KwTest)
    THEN "Testing"
    ELSE IF StrIncludes(description, KwDeployment) \/ StrIncludes(description, KwDeploy)
    THEN "Deployment"
    ELSE "Other"

\* map.set(area, (map.get(area) || 0) + 1) on a Map kept in insertion order
MapIncrement(map, area) ==
    IF \E i \in 1..Len(map) : map[i].area = area
    THEN [i \in 1..Len(map) |->
            IF map[i].area = area THEN [map[i] EXCEPT !.count = @ + 1] ELSE map[i]]
    ELSE Append(map, [area |-> area, count |-> 1])

\* set.add(x) on a Set kept in insertion order
SetAdd(set, x) == IF Includes(set, x) THEN set ELSE Append(set, x)

\* array.slice(0, n)
Slice(seq, n) == SubSeq(seq, 1, IF Len(seq) < n THEN Len(seq) ELSE n)

\* workLogs.forEach(log => ...): the tally of work areas and the accomplishments
RECURSIVE DailyForEach(_, _, _)
DailyForEach(logs, workAreaCount, accomplishments) ==
    IF logs = <<>> THEN [workAreaCount |-> workAreaCount, accomplishments |-> accomplishments]
    ELSE LET log == Head(logs)
         IN  IF Trim(log.workDescription) # <<>>
             THEN DailyForEach(Tail(logs),
                     MapIncrement(workAreaCount, WorkAreaOf(ToLowerCase(log.workDescription))),
                     IF Len(log.workDescription) > 10
                     THEN SetAdd(accomplishments, log.workDescription)
                     ELSE accomplishments)
             ELSE DailyForEach(Tail(logs), workAreaCount, accomplishments)

\* array.sort((a, b) => b.hours - a.hours), a stable sort
SortByHoursKept(seq) == seq
RECURSIVE SortByHoursDesc(_)
SortByHoursDesc(seq) ==
    IF seq = <<>> THEN <<>>
    ELSE LET sorted == SortByHoursDesc(SubSeq(seq, 1, Len(seq) - 1))
             x == seq[Len(seq)]
             k == Cardinality({i \in 1..Len(sorted) : sorted[i].hours >= x.hours})
         IN  SubSeq(sorted, 1, k) \o <<x>> \o SubSeq(sorted, k + 1, Len(sorted))

\* workLogs.some(log => log.isHoliday)
SomeHolidayEvery(logs) == logs # <<>> /\ \A i \in 1..Len(logs) : logs[i].isHoliday
SomeHoliday(logs) == \E i \in 1..Len(logs) : logs[i].isHoliday

\* workLogs.filter(log => log.workDescription.trim() !== "").length
CompletedCountUntrimmed(logs) ==
    Cardinality({i \in 1..Len(logs) : logs[i].workDescription # <<>>})
CompletedCount(logs) ==
    Cardinality({i \in 1..Len(logs) : Trim(logs[i].workDescription) # <<>>})

\* userPreferences ? parseInt(userPreferences.slotDurationMinutes) / 60 : 1
SlotDurationHours(userPreferences) ==
    IF userPreferences = {} THEN Num(1)
    ELSE LET p == CHOOSE r \in userPreferences : TRUE
         IN  JsDiv(Num(ParseInt(p.slotDurationMinutes)), Num(60))

\* Math.round((completedSlots / userTimeSlots.length) * 100)
CompletionPercentage(completedSlots, totalSlots) ==
    MathRound(JsMul(JsDiv(Num(completedSlots), Num(totalSlots)), Num(100)))

\* the body of the response, from the rows in the order the select returned
\* them and the user's preferences
DailySummary(date, logs, userPreferences) ==
    LET userTimeSlots == UserTimeSlots(userPreferences)
        slotDurationHours == SlotDurationHours(userPreferences)
        completedSlots == CompletedCount(logs)
        each == DailyForEach(logs, <<>>, <<>>)
        workAreas == SortByHoursDesc(
            [i \in 1..Len(each.workAreaCount) |->
                [area |-> each.workAreaCount[i].area,
                 hours |-> each.workAreaCount[i].count,
                 percentage |-> MathRound(JsMul(JsDiv(Num(each.workAreaCount[i].count),
                                                      Num(completedSlots)), Num(100)))]])
    IN  IF SomeHoliday(logs)
        THEN [date |-> date, totalHours |-> Num(0), completedSlots |-> 0,
              totalSlots |-> Len(userTimeSlots), completionPercentage |-> Num(0),
              workAreas |-> <<>>, keyAccomplishments |-> <<TextHoliday>>,
              isHoliday |-> TRUE]
        ELSE [date |-> date,
              totalHours |-> JsMul(Num(completedSlots), slotDurationHours),
              completedSlots |-> completedSlots,
              totalSlots |-> Len(userTimeSlots),
              completionPercentage |-> CompletionPercentage(completedSlots, Len(userTimeSlots)),
              workAreas |-> workAreas,
              keyAccomplishments |-> Slice(each.accomplishments, 5),
              isHoliday |-> FALSE]

GetDailySummary(userId, date) ==
    /\ \E logs \in SelectOrders(getWorkLogsByDate(workLogs, userId, date)) :
          response' = [kind |-> "dailySummary", status |-> 200, userId |-> userId,
                       body |-> DailySummary(date, logs,
                                   getUserWorkPreferences(userWorkPreferences, userId))]
    /\ UNCHANGED <<gen, clock, workLogs, userWorkPreferences, req, lastWrite, auth>>

(***************************************************************************)
(* A work-log write request handled without another request in between.    *)
(***************************************************************************)
RECURSIVE UpsertAll(_, _, _, _, _, _)
UpsertAll(logs, handler, userId, date, targets, body) ==
    IF targets = <<>> THEN logs
    ELSE UpsertAll(UpsertWith(logs, getWorkLog(logs, userId, date, Head(targets)) # {},
                              handler, userId, date, Head(targets), body),
                   handler, userId, date, Tail(targets), body)

PutWorkLogs(userId, date, timeSlot, body) ==
    LET handler == MatchPut(<<SApi, SWorkLogs, date, timeSlot>>)
        userTimeSlots == UserTimeSlots(getUserWorkPreferences(userWorkPreferences, userId))
        targets == IF handler = "putWorkLog" THEN <<timeSlot>> ELSE userTimeSlots
    IN  /\ IF handler = "putWorkLog" /\ ~Includes(userTimeSlots, timeSlot)
           THEN /\ response' = [kind |-> handler, status |-> 400, userId |-> userId,
                                date |-> date, timeSlot |-> timeSlot]
                /\ UNCHANGED workLogs
           ELSE /\ response' = [kind |-> handler, status |-> 200, userId |-> userId,
                                date |-> date, timeSlot |-> timeSlot]
                /\ workLogs' = UpsertAll(workLogs, handler, userId, date, targets, body)
        /\ UNCHANGED <<gen, clock, userWorkPreferences, req, lastWrite, auth>>

(***************************************************************************)
(* The monthly summaries: GET /api/work-logs/summary/{year}/{month} and    *)
(* GET /api/work-logs/enhanced-summary/{year}/{month}.                     *)
(***************************************************************************)
\* "-"
Hyphen == <<45>>

\* getWorkLogsByDateRange: select ... where userId = and date >= and date <=
getWorkLogsByDateRange(logs, userId, startDate, endDate) ==
    LET Cond(r) == r.userId = userId /\ StrGeq(r.date, startDate) /\ StrLeq(r.date, endDate)
    IN  Where(logs, Cond)

\* the endpoints getMonthlyWorkLogs builds: day 01 and day 31 of the month
MonthStartDate(year, month) ==
    NumToString(year) \o Hyphen \o PadStart2(NumToString(month)) \o Hyphen \o <<48, 49>>
MonthEndDate(year, month) ==
    NumToString(year) \o Hyphen \o PadStart2(NumToString(month)) \o Hyphen \o <<51, 49>>

\* getMonthlyWorkLogs: the range from day 01 to day 31 of the month
getMonthlyWorkLogs(logs, userId, year, month) ==
    getWorkLogsByDateRange(logs, userId, MonthStartDate(year, month),
                           MonthEndDate(year, month))

\* the chain of the basic summary: no Testing and no Deployment group
WorkAreaOfBasic(description) ==
    IF StrIncludes(description, KwFrontend) \/ StrIncludes(description, KwReact)
          \/ StrIncludes(description, KwUi)
    THEN "Frontend Development"
    ELSE IF StrIncludes(description, KwBackend) \/ StrIncludes(description, KwApi)
          \/ StrIncludes(description, KwServer)
    THEN "Backend Development"
    ELSE IF StrIncludes(description, KwReview) \/ StrIncludes(description, KwCodeReview)
    THEN "Code Review"
    ELSE IF StrIncludes(description, KwMeeting) \/ StrIncludes(description, KwStandup)
    THEN "Meetings"
    ELSE IF StrIncludes(description, KwDocumentation) \/ StrIncludes(description, KwDocs)
    THEN "Documentation"
    ELSE "Other"

\* logsByDate: a Map from date to the date's logs, kept in insertion order
GroupPerRow(logs, logsByDate) ==
    logsByDate \o [i \in 1..Len(logs) |-> [date |-> logs[i].date, logs |-> <<logs[i]>>]]
RECURSIVE GroupByDate(_, _)
GroupByDate(logs, logsByDate) ==
    IF logs = <<>> THEN logsByDate
    ELSE LET log == Head(logs)
         IN  IF \E i \in 1..Len(logsByDate) : logsByDate[i].date = log.date
             THEN GroupByDate(Tail(logs),
                     [i \in 1..Len(logsByDate) |->
                         IF logsByDate[i].date = log.date
                         THEN [logsByDate[i] EXCEPT !.logs = Append(@, log)]
                         ELSE logsByDate[i]])
             ELSE GroupByDate(Tail(logs), Append(logsByDate, [date |-> log.date, logs |-> <<log>>]))

\* logs.filter(log => !log.isHoliday && log.workDescription.trim() !== "").length
ProductiveCountAll(logs) ==
    Cardinality({i \in 1..Len(logs) : Trim(logs[i].workDescription) # <<>>})
ProductiveCount(logs) ==
    Cardinality({i \in 1..Len(logs) : ~logs[i].isHoliday /\ Trim(logs[i].workDescription) # <<>>})

\* one element of dailySummaries before the sort
DayRollupCounted(date, logs, slotDurationHours, totalSlots) ==
    LET completedSlots == ProductiveCount(logs)
    IN  [date |-> date,
         hours |-> JsMul(Num(completedSlots), slotDurationHours),
         completionPercentage |-> CompletionPercentage(completedSlots, totalSlots)]
DayRollup(date, logs, slotDurationHours, totalSlots) ==
    LET isHoliday == SomeHoliday(logs)
        completedSlots == ProductiveCount(logs)
    IN  [date |-> date,
         hours |-> IF isHoliday THEN Num(0) ELSE JsMul(Num(completedSlots), slotDurationHours),
         completionPercentage |-> IF isHoliday THEN Num(0)
                                  ELSE CompletionPercentage(completedSlots, totalSlots)]

\* array.sort((a, b) => a.date.localeCompare(b.date)), a stable sort
RECURSIVE SortByDate(_)
SortByDate(seq) ==
    IF seq = <<>> THEN <<>>
    ELSE LET sorted == SortByDate(SubSeq(seq, 1, Len(seq) - 1))
             x == seq[Len(seq)]
             k == Cardinality({i \in 1..Len(sorted) : ~StrLt(x.date, sorted[i].date)})
         IN  SubSeq(sorted, 1, k) \o <<x>> \o SubSeq(sorted, k + 1, Len(sorted))

\* a < b, for finite numbers
NumLt(a, b) == a.n * b.d < b.n * a.d

\* array.sort((a, b) => b.hours - a.hours) over the rollups, a stable sort
RECURSIVE SortDaysAscending(_)
SortDaysAscending(seq) ==
    IF seq = <<>> THEN <<>>
    ELSE LET sorted == SortDaysAscending(SubSeq(seq, 1, Len(seq) - 1))
             x == seq[Len(seq)]
             k == Cardinality({i \in 1..Len(sorted) : ~NumLt(x.hours, sorted[i].hours)})
         IN  SubSeq(sorted, 1, k) \o <<x>> \o SubSeq(sorted, k + 1, Len(sorted))
RECURSIVE SortDaysByHoursDesc(_)
SortDaysByHoursDesc(seq) ==
    IF seq = <<>> THEN <<>>
    ELSE LET sorted == SortDaysByHoursDesc(SubSeq(seq, 1, Len(seq) - 1))
             x == seq[Len(seq)]
             k == Cardinality({i \in 1..Len(sorted) : ~NumLt(sorted[i].hours, x.hours)})
         IN  SubSeq(sorted, 1, k) \o <<x>> \o SubSeq(sorted, k + 1, Len(sorted))

\* array.sort((a, b) => b[1] - a[1]) over the Map's entries, a stable sort
RECURSIVE SortByCountDesc(_)
SortByCountDesc(seq) ==
    IF seq = <<>> THEN <<>>
    ELSE LET sorted == SortByCountDesc(SubSeq(seq, 1, Len(seq) - 1))
             x == seq[Len(seq)]
             k == Cardinality({i \in 1..Len(sorted) : sorted[i].count >= x.count})
         IN  SubSeq(sorted, 1, k) \o <<x>> \o SubSeq(sorted, k + 1, Len(sorted))

\* day.date.endsWith('holiday')
EndsWith(s, suffix) ==
    Len(s) >= Len(suffix) /\ SubSeq(s, Len(s) - Len(suffix) + 1, Len(s)) = suffix

\* array.filter(day => !day.date.endsWith('holiday'))
TextHolidayLower == <<104, 111, 108, 105, 100, 97, 121>>
RECURSIVE DropHolidayDates(_)
DropHolidayDates(seq) ==
    IF seq = <<>> THEN <<>>
    ELSE (IF EndsWith(Head(seq).date, TextHolidayLower) THEN <<>> ELSE <<Head(seq)>>)
            \o DropHolidayDates(Tail(seq))

\* x || 1
OrOne(x) == IF x.tag = "NaN" \/ (x.tag = "num" /\ x.n = 0) THEN Num(1) ELSE x

\* Math.ceil(x)
MathCeil(x) == IF x.tag # "num" THEN x ELSE Num((x.n + x.d - 1) \div x.d)

\* the forEach of the enhanced summary: work areas and accomplishments
RECURSIVE MonthlyForEach(_, _, _)
MonthlyForEach(logs, workAreas, allAccomplishments) ==
    IF logs = <<>> THEN [workAreas |-> workAreas, allAccomplishments |-> allAccomplishments]
    ELSE LET log == Head(logs)
         IN  IF ~log.isHoliday /\ Trim(log.workDescription) # <<>>
             THEN MonthlyForEach(Tail(logs),
                     MapIncrement(workAreas, WorkAreaOf(ToLowerCase(log.workDescription))),
                     IF Len(log.workDescription) > 15
                     THEN SetAdd(allAccomplishments, log.workDescription)
                     ELSE allAccomplishments)
             ELSE MonthlyForEach(Tail(logs), workAreas, allAccomplishments)

\* the forEach of the basic summary: work areas only
RECURSIVE BasicForEach(_, _)
BasicForEach(logs, workAreas) ==
    IF logs = <<>> THEN workAreas
    ELSE LET log == Head(logs)
         IN  IF ~log.isHoliday /\ Trim(log.workDescription) # <<>>
             THEN BasicForEach(Tail(logs),
                     MapIncrement(workAreas, WorkAreaOfBasic(ToLowerCase(log.workDescription))))
             ELSE BasicForEach(Tail(logs), workAreas)

\* the body of the enhanced summary, from the month's rows in the order the
\* select returned them and the user's preferences
EnhancedSummary(year, month, logs, userPreferences) ==
    LET userTimeSlots == UserTimeSlots(userPreferences)
        slotDurationHours == SlotDurationHours(userPreferences)
        logsByDate == GroupByDate(logs, <<>>)
        dailySummaries == SortByDate(
            [i \in 1..Len(logsByDate) |->
                DayRollup(logsByDate[i].date, logsByDate[i].logs, slotDurationHours,
                          Len(userTimeSlots))])
        totalDays == Len(logsByDate)
        holidayDays == Cardinality({i \in 1..Len(logsByDate) : SomeHoliday(logsByDate[i].logs)})
        workingDays == totalDays - holidayDays
        productiveHours == JsMul(Num(ProductiveCount(logs)), slotDurationHours)
        adjustedProductiveHours == productiveHours
        each == MonthlyForEach(logs, <<>>, <<>>)
        top == Slice(SortByCountDesc(each.workAreas), 6)
        topWorkAreas ==
            [i \in 1..Len(top) |->
                [area |-> top[i].area, hours |-> top[i].count,
                 percentage |-> MathRound(JsMul(JsDiv(Num(top[i].count),
                                                      OrOne(adjustedProductiveHours)),
                                                Num(100)))]]
        mostProductiveDays == Slice(SortDaysByHoursDesc(DropHolidayDates(dailySummaries)), 5)
    IN  [year |-> year, month |-> month, totalDays |-> totalDays,
         workingDays |-> workingDays, holidayDays |-> holidayDays,
         totalProductiveHours |-> adjustedProductiveHours,
         averageHoursPerDay |->
            IF workingDays > 0
            THEN JsDiv(MathRound(JsMul(JsDiv(adjustedProductiveHours, Num(workingDays)),
                                       Num(10))), Num(10))
            ELSE Num(0),
         topWorkAreas |-> topWorkAreas,
         dailySummaries |->
            [i \in 1..Len(dailySummaries) |->
                [date |-> dailySummaries[i].date,
                 totalHours |-> dailySummaries[i].hours,
                 completedSlots |-> MathCeil(dailySummaries[i].hours),
                 totalSlots |-> Len(userTimeSlots),
                 completionPercentage |-> dailySummaries[i].completionPercentage,
                 workAreas |-> <<>>, keyAccomplishments |-> <<>>,
                 isHoliday |-> dailySummaries[i].completionPercentage = Num(0)
                               /\ dailySummaries[i].hours = Num(0)]],
         keyAccomplishments |-> Slice(each.allAccomplishments, 10),
         mostProductiveDays |-> mostProductiveDays]

\* the body of the basic summary
BasicSummary(logs, userPreferences) ==
    LET totalDays == Cardinality({logs[i].date : i \in 1..Len(logs)})
        holidayDays == Cardinality({logs[i].date : i \in {j \in 1..Len(logs) : logs[j].isHoliday}})
        workingDays == totalDays - holidayDays
        slotDurationHours == SlotDurationHours(userPreferences)
        productiveHours == JsMul(Num(ProductiveCount(logs)), slotDurationHours)
        adjustedProductiveHours == productiveHours
        top == Slice(SortByCountDesc(BasicForEach(logs, <<>>)), 5)
        topWorkAreas ==
            [i \in 1..Len(top) |->
                [area |-> top[i].area, hours |-> top[i].count,
                 percentage |-> MathRound(JsMul(JsDiv(Num(top[i].count),
                                                      OrOne(adjustedProductiveHours)),
                                                Num(100)))]]
    IN  [totalDays |-> totalDays, holidayDays |-> holidayDays, workingDays |-> workingDays,
         totalProductiveHours |-> adjustedProductiveHours,
         averageHoursPerDay |->
            IF workingDays > 0
            THEN JsDiv(MathRound(JsMul(JsDiv(adjustedProductiveHours, Num(workingDays)),
                                       Num(10))), Num(10))
            ELSE Num(0),
         topWorkAreas |-> topWorkAreas]

\* month < 1 || month > 12 (year and month arrive as numbers here)
ValidMonth(month) == month >= 1 /\ month <= 12

GetEnhancedSummary(userId, year, month) ==
    /\ IF ~ValidMonth(month)
       THEN response' = [kind |-> "enhancedSummary", status |-> 400, userId |-> userId]
       ELSE \E logs \in SelectOrders(getMonthlyWorkLogs(workLogs, userId, year, month)) :
               response' = [kind |-> "enhancedSummary", status |-> 200, userId |-> userId,
                            body |-> EnhancedSummary(year, month, logs,
                                        getUserWorkPreferences(userWorkPreferences, userId))]
    /\ UNCHANGED <<gen, clock, workLogs, userWorkPreferences, req, lastWrite, auth>>

GetBasicSummary(userId, year, month) ==
    /\ IF ~ValidMonth(month)
       THEN response' = [kind |-> "basicSummary", status |-> 400, userId |-> userId]
       ELSE \E logs \in SelectOrders(getMonthlyWorkLogs(workLogs, userId, year, month)) :
               response' = [kind |-> "basicSummary", status |-> 200, userId |-> userId,
                            body |-> BasicSummary(logs,
                                        getUserWorkPreferences(userWorkPreferences, userId))]
    /\ UNCHANGED <<gen, clock, workLogs, userWorkPreferences, req, lastWrite, auth>>

(***************************************************************************)
(* Password reset: AuthService.forgotPassword and AuthService.resetPassword,*)
(* one step per awaited storage call.                                      *)
(***************************************************************************)
\* the tokens generateToken can return, in the order it returns them
MaxTokens == 2
Tokens == 1..MaxTokens

AuthUsers == {"u1"}
\* the e-mail address of u1 and an address without an account
Emails == {"u1@example.com", "nobody@example.com"}
Passwords == {"secret1", "secret2"}

MsgSent == "If an account with that email exists, we sent a password reset link."
MsgInvalid == "Invalid or expired reset token"
MsgExpired == "Reset token has expired. Please request a new one."
MsgUsed == "This reset token has already been used"
MsgReset == "Password reset successfully. You can now login with your new password."

\* bcrypt.hash(password, 12)
hashPassword(password) == <<"bcrypt", password>>

CallIdle == [pc |-> "idle", op |-> "none", token |-> 0, password |-> "", userId |-> "none",
             result |-> "", afterSuccess |-> FALSE, earlier |-> {}]

\* passwords: the users' password column; tokens: table password_reset_tokens
\* (expired: the clock has passed expiresAt); calls: the call each connection
\* is in; history: changes, the password updates made with each token, and
\* succeeded, the tokens a resetPassword call has returned successfully with
AuthIdle ==
    [passwords |-> [u \in AuthUsers |-> hashPassword("secret0")],
     tokens |-> {}, nextToken |-> 1,
     calls |-> [p \in 1..NumProcs |-> CallIdle],
     changes |-> [t \in Tokens |-> 0], succeeded |-> {}]

\* storage.getUserByEmail
getUserByEmail(email) == IF email = "u1@example.com" THEN {"u1"} ELSE {}

\* storage.getPasswordResetToken: select ... where token =
getPasswordResetToken(table, token) == {r \in table : r.token = token}

\* storage.markPasswordResetTokenAsUsed: update ... set used = true where token =
markPasswordResetTokenAsUsed(table, token) ==
    {IF r.token = token THEN [r EXCEPT !.used = TRUE] ELSE r : r \in table}

\* storage.deleteExpiredPasswordResetTokens: delete ... where userId =
deleteExpiredPasswordResetTokens(table, userId) == {r \in table : r.userId # userId}

\* storage.createPasswordResetToken: insert, used false by default
createPasswordResetToken(table, userId, token) ==
    table \cup {[token |-> token, userId |-> userId, used |-> FALSE, expired |-> FALSE]}

AuthUnchanged ==
    UNCHANGED <<gen, clock, workLogs, userWorkPreferences, req, lastWrite, response>>

\* the calls that will still take a token from generateToken
PendingTokens == Cardinality({p \in 1..NumProcs : auth.calls[p].pc \in {"delete", "create"}})

\* forgotPassword up to the result of getUserByEmail
ForgotStart(p, email) ==
    LET user == getUserByEmail(email)
        call == [CallIdle EXCEPT !.op = "forgotPassword"]
    IN  /\ auth.calls[p].pc = "idle"
        /\ auth.nextToken + PendingTokens <= MaxTokens
        /\ auth' = [auth EXCEPT !.calls[p] =
                      IF user = {} THEN [call EXCEPT !.pc = "done", !.result = MsgSent]
                      ELSE LET userId == CHOOSE u \in user : TRUE
                           IN  [call EXCEPT !.pc = "delete", !.userId = userId,
                                   !.earlier = {r.token : r \in {x \in auth.tokens :
                                                                    x.userId = userId}}]]
        /\ AuthUnchanged

\* await storage.deleteExpiredPasswordResetTokens(user.id)
ForgotDelete(p) ==
    /\ auth.calls[p].pc = "delete"
    /\ auth' = [auth EXCEPT !.tokens = deleteExpiredPasswordResetTokens(auth.tokens,
                                                                        auth.calls[p].userId),
                            !.calls[p].pc = "create"]
    /\ AuthUnchanged

\* generateToken and await storage.createPasswordResetToken(...); the call returns
ForgotCreate(p) ==
    /\ auth.calls[p].pc = "create"
    /\ auth' = [auth EXCEPT !.tokens = createPasswordResetToken(auth.tokens,
                                            auth.calls[p].userId, auth.nextToken),
                            !.nextToken = auth.nextToken + 1,
                            !.calls[p].token = auth.nextToken,
                            !.calls[p].pc = "done", !.calls[p].result = MsgSent]
    /\ AuthUnchanged

\* the checks of resetPassword in the order of the code: found, expired, used
ResetCheck(found, row) ==
    IF found = {} THEN MsgInvalid
    ELSE IF row.expired THEN MsgExpired
    ELSE IF row.used THEN MsgUsed
    ELSE ""

\* resetPassword up to its checks of the row getPasswordResetToken returned
ResetStart(p, token, password) ==
    LET found == getPasswordResetToken(auth.tokens, token)
        row == IF found = {} THEN [userId |-> "none", used |-> FALSE, expired |-> FALSE]
               ELSE CHOOSE r \in found : TRUE
        error == ResetCheck(found, row)
        call == [CallIdle EXCEPT !.op = "resetPassword", !.token = token,
                                 !.password = password,
                                 !.afterSuccess = token \in auth.succeeded]
    IN  /\ auth.calls[p].pc = "idle"
        /\ auth' = [auth EXCEPT !.calls[p] =
                      IF error = ""
                      THEN [call EXCEPT !.pc = "update", !.userId = row.userId]
                      ELSE [call EXCEPT !.pc = "done", !.result = error]]
        /\ AuthUnchanged

\* await this.hashPassword(password); await storage.updateUser(userId, { password })
ResetUpdate(p) ==
    /\ auth.calls[p].pc = "update"
    /\ auth' = [auth EXCEPT !.passwords[auth.calls[p].userId] =
                                hashPassword(auth.calls[p].password),
                            !.changes[auth.calls[p].token] = @ + 1,
                            !.calls[p].pc = "mark"]
    /\ AuthUnchanged

\* await storage.markPasswordResetTokenAsUsed(token); the call returns
ResetMark(p) ==
    /\ auth.calls[p].pc = "mark"
    /\ auth' = [auth EXCEPT !.tokens = markPasswordResetTokenAsUsed(auth.tokens,
                                                                    auth.calls[p].token),
                            !.succeeded = @ \cup {auth.calls[p].token},
                            !.calls[p].pc = "done", !.calls[p].result = MsgReset]
    /\ AuthUnchanged

\* the response is sent and the connection serves its next request
AuthReturn(p) ==
    /\ auth.calls[p].pc = "done"
    /\ auth' = [auth EXCEPT !.calls[p] = CallIdle]
    /\ AuthUnchanged

\* the hour of a token passes
Expire(token) ==
    /\ \E r \in auth.tokens : r.token = token /\ ~r.expired
    /\ auth' = [auth EXCEPT !.tokens =
                  {IF r.token = token THEN [r EXCEPT !.expired = TRUE] ELSE r : r \in auth.tokens}]
    /\ AuthUnchanged

(***************************************************************************)
(* Specifications.                                                         *)
(***************************************************************************)
ServerIdle ==
    /\ auth = AuthIdle
    /\ workLogs = EmptyBag
    /\ userWorkPreferences = {}
    /\ req = [p \in Procs |-> ReqIdle]
    /\ lastWrite = <<>>
    /\ response = NoResponse

\* generateTimeSlots alone, on every pair of times and every duration
SlotsInit == GenInit /\ clock = ClockIdle /\ ServerIdle
SlotsNext == GenEnter \/ GenIterate \/ GenReturn
SpecSlots == SlotsInit /\ [][SlotsNext]_vars

\* the clock resolver alone
ClockSpecInit == ClockInit /\ gen = GenIdle /\ ServerIdle
ClockNext == Tick \/ UpdateTime
SpecClock == ClockSpecInit /\ [][ClockNext]_vars

\* the server under concurrent write requests
Init == gen = GenIdle /\ clock = ClockIdle /\ ServerIdle
Next ==
    \/ \E p \in Procs, u \in Users, d \in ReqDates, t \in ReqSlots, b \in ReqBodies :
          Receive(p, u, d, t, b)
    \/ \E p \in Procs, i \in 1..MaxSlots : Get(p, i)
    \/ \E p \in Procs, i \in 1..MaxSlots : Write(p, i)
    \/ \E p \in Procs : Finish(p)
    \/ \E u \in Users : GetWorkPreferences(u)
    \/ \E u \in Users, data \in PrefBodies : PutWorkPreferences(u, data)
Spec == Init /\ [][Next]_vars

\* the server, one request at a time, with the daily summary
SumDates == {D0210}
SumSlots == {S0900, S0930, S1000, S1100, SHoliday}
SumBodies == { LogBody(TRUE, DescEmpty, FALSE, FALSE),
               LogBody(TRUE, DescBlank, FALSE, FALSE),
               LogBody(TRUE, DescApi, FALSE, FALSE),
               LogBody(FALSE, <<>>, TRUE, TRUE),
               LogBody(FALSE, <<>>, TRUE, FALSE) }
SummaryNext ==
    \/ \E u \in Users, d \in SumDates, t \in SumSlots, b \in SumBodies : PutWorkLogs(u, d, t, b)
    \/ \E u \in Users : GetWorkPreferences(u)
    \/ \E u \in Users, data \in PrefBodies : PutWorkPreferences(u, data)
    \/ \E u \in Users, d \in SumDates : GetDailySummary(u, d)
SpecSummary == Init /\ [][SummaryNext]_vars

\* the daily summary as a function of the two tables, over the rows their
\* columns admit (start >= end included: the empty slot sequence)
AggRows ==
    { WorkLogRow("u1", D0210, S0900, DescApi, FALSE),
      WorkLogRow("u1", D0210, S0930, DescBlank, FALSE),
      WorkLogRow("u1", D0210, S1000, DescUi, FALSE),
      WorkLogRow("u1", D0210, S1100, DescEmpty, TRUE),
      WorkLogRow("u1", D0210, S1200, DescApi, FALSE) }
AggPreferences ==
    { {},
      {PreferencesRow("u1", [startTime |-> S0900, endTime |-> S1000,
                             slotDurationMinutes |-> S30, timezone |-> "UTC"])},
      {PreferencesRow("u1", [startTime |-> S0900, endTime |-> S0900,
                             slotDurationMinutes |-> S60, timezone |-> "UTC"])},
      {PreferencesRow("u1", [startTime |-> S1000, endTime |-> S0900,
                             slotDurationMinutes |-> S15, timezone |-> "UTC"])} }
AggregateInit ==
    /\ gen = GenIdle /\ clock = ClockIdle /\ auth = AuthIdle
    /\ workLogs \in {SetToBag(rows) : rows \in SUBSET AggRows}
    /\ userWorkPreferences \in AggPreferences
    /\ req = [p \in Procs |-> ReqIdle]
    /\ lastWrite = <<>>
    /\ response = NoResponse
AggregateNext == \E u \in Users, d \in SumDates : GetDailySummary(u, d)
SpecAggregate == AggregateInit /\ [][AggregateNext]_vars

D0301 == <<50, 48, 50, 52, 45, 48, 51, 45, 48, 49>>
D0302 == <<50, 48, 50, 52, 45, 48, 51, 45, 48, 50>>
D0303 == <<50, 48, 50, 52, 45, 48, 51, 45, 48, 51>>
D0304 == <<50, 48, 50, 52, 45, 48, 51, 45, 48, 52>>
D0305 == <<50, 48, 50, 52, 45, 48, 51, 45, 48, 53>>
D0306 == <<50, 48, 50, 52, 45, 48, 51, 45, 48, 54>>
D0401 == <<50, 48, 50, 52, 45, 48, 52, 45, 48, 49>>
\* "Reviewed the new react component"
DescReviewedReact == <<82, 101, 118, 105, 101, 119, 101, 100, 32, 116, 104, 101, 32, 110, 101, 119, 32, 114, 101, 97, 99, 116, 32, 99, 111, 109, 112, 111, 110, 101, 110, 116>>
\* "standup" and nine spaces
DescPadded == <<115, 116, 97, 110, 100, 117, 112, 32, 32, 32, 32, 32, 32, 32, 32, 32>>
\* "code review"
DescCodeReview == <<99, 111, 100, 101, 32, 114, 101, 118, 105, 101, 119>>
\* "docs"
DescDocs == <<100, 111, 99, 115>>
\* "Test"
DescTest == <<84, 101, 115, 116>>
\* "deploy to production"
DescDeploy == <<100, 101, 112, 108, 111, 121, 32, 116, 111, 32, 112, 114, 111, 100, 117, 99, 116, 105, 111, 110>>
\* "lunch"
DescLunch == <<108, 117, 110, 99, 104>>
\* "deploy release 01", "deploy release 02", ...
DescRelease(k) == <<100, 101, 112, 108, 111, 121, 32, 114, 101, 108, 101, 97, 115, 101, 32>> \o PadStart2(NumToString(k))

\* the monthly and daily summaries as functions of the two tables
MonthDates == {D0301, D0302, D0303}
DayPatterns == {"none", "work", "busy", "holiday", "partHoliday", "padded"}
DayRows(date, pattern) ==
    CASE pattern = "none" -> {}
      [] pattern = "work" -> { WorkLogRow("u1", date, S0900, DescReviewedReact, FALSE),
                               WorkLogRow("u1", date, S1000, DescBlank, FALSE) }
      [] pattern = "busy" -> { WorkLogRow("u1", date, S0900, DescApi, FALSE),
                               WorkLogRow("u1", date, S1000, DescUi, FALSE),
                               WorkLogRow("u1", date, S1100, DescApi, FALSE) }
      [] pattern = "holiday" -> { WorkLogRow("u1", date, S0900, DescEmpty, TRUE) }
      [] pattern = "partHoliday" -> { WorkLogRow("u1", date, S0900, DescApi, FALSE),
                                      WorkLogRow("u1", date, S1000, DescUi, TRUE) }
      [] pattern = "padded" -> { WorkLogRow("u1", date, S0900, DescPadded, FALSE) }

\* rows outside the month or of another user
OtherRows ==
    { WorkLogRow("u1", D0210, S0900, DescApi, FALSE),
      WorkLogRow("u1", D0401, S0900, DescUi, FALSE),
      WorkLogRow("u2", D0301, S0900, DescDocs, FALSE) }

\* eight work areas over six dates
EightAreas ==
    { WorkLogRow("u1", D0301, S0900, DescUi, FALSE),
      WorkLogRow("u1", D0301, S1000, DescApi, FALSE),
      WorkLogRow("u1", D0301, S1100, DescLunch, FALSE),
      WorkLogRow("u1", D0302, S0900, DescCodeReview, FALSE),
      WorkLogRow("u1", D0303, S0900, DescPadded, FALSE),
      WorkLogRow("u1", D0304, S0900, DescDocs, FALSE),
      WorkLogRow("u1", D0305, S0900, DescTest, FALSE),
      WorkLogRow("u1", D0306, S0900, DescDeploy, FALSE) }

\* eleven long descriptions, six of them on one date
ElevenReleases ==
    {WorkLogRow("u1", D0301, FormatTime(9 * 60 + 60 * (k - 1)), DescRelease(k), FALSE) : k \in 1..6}
       \cup {WorkLogRow("u1", D0302, FormatTime(9 * 60 + 60 * (k - 7)), DescRelease(k), FALSE) : k \in 7..11}

\* a working date whose rows have no description, beside a holiday and a
\* described date
BlankDay ==
    { WorkLogRow("u1", D0301, S0900, DescEmpty, FALSE),
      WorkLogRow("u1", D0301, S1000, DescBlank, FALSE),
      WorkLogRow("u1", D0302, S0900, DescEmpty, TRUE),
      WorkLogRow("u1", D0303, S0900, DescApi, FALSE) }

MonthTables ==
    {SetToBag(UNION {DayRows(d, pattern[d]) : d \in MonthDates} \cup OtherRows) :
        pattern \in [MonthDates -> DayPatterns]}
       \cup {SetToBag(EightAreas \cup OtherRows), SetToBag(ElevenReleases),
             SetToBag(BlankDay)}

MonthPreferences ==
    { {},
      {PreferencesRow("u1", [startTime |-> S0900, endTime |-> S1700,
                             slotDurationMinutes |-> S30, timezone |-> "UTC"])},
      {PreferencesRow("u1", [startTime |-> S0900, endTime |-> S1700,
                             slotDurationMinutes |-> S15, timezone |-> "UTC"])} }

MonthlyInit ==
    /\ gen = GenIdle /\ clock = ClockIdle /\ auth = AuthIdle
    /\ workLogs \in MonthTables
    /\ userWorkPreferences \in MonthPreferences
    /\ req = [p \in Procs |-> ReqIdle]
    /\ lastWrite = <<>>
    /\ response = NoResponse
MonthlyNext ==
    \/ \E u \in Users, month \in {3, 13} : GetEnhancedSummary(u, 2024, month)
    \/ \E u \in Users, month \in {3, 13} : GetBasicSummary(u, 2024, month)
    \/ \E u \in Users, d \in MonthDates : GetDailySummary(u, d)
SpecMonthly == MonthlyInit /\ [][MonthlyNext]_vars

(***************************************************************************)
(* The month query of the storage layer, on its own: getMonthlyWorkLogs    *)
(* over tables with rows on both sides of month boundaries.                *)
(***************************************************************************)
DateOf(year, month, day) ==
    NumToString(year) \o Hyphen \o PadStart2(NumToString(month)) \o Hyphen
        \o PadStart2(NumToString(day))

RangeYears == {2023, 2024}
RangeMonths == 1..12

\* rows on the first and the last days of short and long months
RangeRows ==
    { WorkLogRow("u1", DateOf(2024, 1, 31), S0900, DescApi, FALSE),
      WorkLogRow("u1", DateOf(2024, 2, 1), S0900, DescUi, FALSE),
      WorkLogRow("u1", DateOf(2024, 2, 29), S0900, DescApi, FALSE),
      WorkLogRow("u1", DateOf(2024, 3, 1), S0900, DescUi, FALSE),
      WorkLogRow("u1", DateOf(2023, 2, 28), S0900, DescApi, FALSE),
      WorkLogRow("u1", DateOf(2024, 4, 30), S0900, DescUi, FALSE),
      WorkLogRow("u2", DateOf(2024, 2, 29), S0900, DescApi, FALSE) }

\* the query the storage layer issues and the rows it returns
MonthlyWorkLogs(userId, year, month) ==
    /\ response' = [kind |-> "monthlyWorkLogs", status |-> 200, userId |-> userId,
                    body |-> [year |-> year, month |-> month,
                              startDate |-> MonthStartDate(year, month),
                              endDate |-> MonthEndDate(year, month),
                              rows |-> getMonthlyWorkLogs(workLogs, userId, year, month)]]
    /\ UNCHANGED <<gen, clock, workLogs, userWorkPreferences, req, lastWrite, auth>>

RangeInit ==
    /\ gen = GenIdle /\ clock = ClockIdle /\ auth = AuthIdle
    /\ workLogs \in {SetToBag(rows) : rows \in SUBSET RangeRows}
    /\ userWorkPreferences = {}
    /\ req = [p \in Procs |-> ReqIdle]
    /\ lastWrite = <<>>
    /\ response = NoResponse
RangeNext ==
    \E u \in Users, year \in RangeYears, month \in RangeMonths :
        MonthlyWorkLogs(u, year, month)
SpecRange == RangeInit /\ [][RangeNext]_vars

(***************************************************************************)
(* The work-preferences routes on their own, with request bodies on both   *)
(* sides of every rule of workPreferencesSchema.                           *)
(***************************************************************************)
\* "9:00": matches the regular expression, but is not a two-digit hour
S900 == <<57, 58, 48, 48>>
\* "25:00": does not match the regular expression
S2500 == <<50, 53, 58, 48, 48>>

PrefTimes == {S0900, S1000, S1700, S900, S2500}
PrefInputs ==
    [startTime : PrefTimes, endTime : PrefTimes,
     slotDurationMinutes : {S15, S30, S45, S60}, timezone : {"UTC", ""}]

PreferencesNext ==
    \/ \E u \in Users : GetWorkPreferences(u)
    \/ \E u \in Users, data \in PrefInputs : PutWorkPreferences(u, data)
SpecPreferences == Init /\ [][PreferencesNext]_vars

(***************************************************************************)
(* The body of the holiday handler, one step per storage call, beside the  *)
(* read the daily summary starts with.  The handler is entered directly:   *)
(* the router never dispatches a request to it (see MatchPut).             *)
(***************************************************************************)
\* the two slots of the schedule 09:00-10:00 / 30
ToggleSchedule ==
    [startTime |-> S0900, endTime |-> S1000, slotDurationMinutes |-> S30, timezone |-> "UTC"]

\* tables in which the slots of the date agree: no rows, or a row per slot,
\* all working or all holiday
ToggleTables ==
    {EmptyBag}
       \cup {SetToBag({WorkLogRow("u1", D0210, S0900, DescApi, h),
                       WorkLogRow("u1", D0210, S0930, DescEmpty, h)}) : h \in BOOLEAN}

\* the handler of PUT /api/work-logs/:date/holiday up to its Promise.all
EnterHoliday(p, userId, date, isHoliday) ==
    LET userTimeSlots == UserTimeSlots(getUserWorkPreferences(userWorkPreferences, userId))
        call == [ReqIdle EXCEPT !.handler = "putHoliday", !.userId = userId, !.date = date,
                                !.timeSlot = SHoliday,
                                !.body = LogBody(FALSE, <<>>, TRUE, isHoliday)]
    IN  /\ req[p].pc = "idle"
        /\ req' = [req EXCEPT ![p] =
                     IF userTimeSlots = <<>> THEN [call EXCEPT !.pc = "done", !.status = 200]
                     ELSE [call EXCEPT !.pc = "upsert", !.targets = userTimeSlots,
                                       !.slotPc = [i \in 1..Len(userTimeSlots) |-> "todo"]]]
        /\ UNCHANGED <<gen, clock, workLogs, userWorkPreferences, lastWrite, response, auth>>

\* const workLogs = await storage.getWorkLogsByDate(userId, date)
ReadWorkLogsByDate(userId, date) ==
    /\ response' = [kind |-> "workLogsByDate", status |-> 200, userId |-> userId,
                    body |-> [date |-> date,
                              rows |-> getWorkLogsByDate(workLogs, userId, date)]]
    /\ UNCHANGED <<gen, clock, workLogs, userWorkPreferences, req, lastWrite, auth>>

ToggleInit ==
    /\ gen = GenIdle /\ clock = ClockIdle /\ auth = AuthIdle
    /\ workLogs \in ToggleTables
    /\ userWorkPreferences = {PreferencesRow("u1", ToggleSchedule)}
    /\ req = [p \in Procs |-> ReqIdle]
    /\ lastWrite = <<>>
    /\ response = NoResponse
ToggleNext ==
    \/ \E p \in Procs, u \in Users, d \in ReqDates, h \in BOOLEAN : EnterHoliday(p, u, d, h)
    \/ \E p \in Procs, i \in 1..MaxSlots : Get(p, i)
    \/ \E p \in Procs, i \in 1..MaxSlots : Write(p, i)
    \/ \E p \in Procs : Finish(p)
    \/ \E u \in Users, d \in ReqDates : ReadWorkLogsByDate(u, d)
SpecToggle == ToggleInit /\ [][ToggleNext]_vars

(***************************************************************************)
(* The password reset calls of two connections.                            *)
(***************************************************************************)
AuthNext ==
    \/ \E p \in Procs, email \in Emails : ForgotStart(p, email)
    \/ \E p \in Procs : ForgotDelete(p)
    \/ \E p \in Procs : ForgotCreate(p)
    \/ \E p \in Procs, token \in Tokens, password \in Passwords : ResetStart(p, token, password)
    \/ \E p \in Procs : ResetUpdate(p)
    \/ \E p \in Procs : ResetMark(p)
    \/ \E p \in Procs : AuthReturn(p)
    \/ \E token \in Tokens : Expire(token)
SpecAuth == Init /\ [][AuthNext]_vars

(***************************************************************************)
(* Properties of generateTimeSlots (SpecSlots).                            *)
(***************************************************************************)
\* the minute of the day a zero-padded HH:MM label names
LabelMinutes(s) == ((s[1] - 48) * 10 + (s[2] - 48)) * 60 + (s[4] - 48) * 10 + (s[5] - 48)

IsLabel(s) ==
    /\ Len(s) = 5
    /\ IsDigit(s[1]) /\ IsDigit(s[2]) /\ s[3] = 58 /\ IsDigit(s[4]) /\ IsDigit(s[5])
    /\ (s[1] - 48) * 10 + (s[2] - 48) <= 23
    /\ (s[4] - 48) * 10 + (s[5] - 48) <= 59

NineToFive == <<S0900, S1000, S1100, S1200, S1300, S1400, S1500, S1600>>

\* C1: for startTime < endTime and a positive duration, the returned labels
\* are zero-padded HH:MM, start at startTime, stay strictly below endTime,
\* increase strictly and differ by exactly the duration; ("09:00", "17:00",
\* 60) returns the 8 labels 09:00 .. 16:00.
C1_SlotsOfValidSchedule ==
    (gen.pc = "done" /\ StrLt(gen.startTime, gen.endTime) /\ gen.slotDurationMinutes > 0) =>
        /\ Len(gen.slots) >= 1
        /\ gen.slots[1] = gen.startTime
        /\ \A i \in 1..Len(gen.slots) :
              IsLabel(gen.slots[i]) /\ StrLt(gen.slots[i], gen.endTime)
        /\ \A i \in 1..(Len(gen.slots) - 1) :
              /\ StrLt(gen.slots[i], gen.slots[i + 1])
              /\ LabelMinutes(gen.slots[i + 1]) - LabelMinutes(gen.slots[i])
                    = gen.slotDurationMinutes
        /\ (gen.startTime = S0900 /\ gen.endTime = S1700 /\ gen.slotDurationMinutes = 60)
              => gen.slots = NineToFive

C1_Witness ==
    /\ gen.pc = "done"
    /\ gen.startTime = S0900 /\ gen.endTime = S1700 /\ gen.slotDurationMinutes = 60
    /\ Len(gen.slots) = 8

\* C2: a call with a duration <= 0 pushes no slot (and so returns the empty
\* sequence), whatever its times are.
C2_NonPositiveDurationPushesNothing ==
    gen.slotDurationMinutes <= 0 => gen.slots = <<>>

\* C3: for startTime >= endTime and a positive duration the call returns
\* the empty sequence.
C3_StartNotBeforeEndIsEmpty ==
    (gen.pc = "done" /\ StrGeq(gen.startTime, gen.endTime) /\ gen.slotDurationMinutes > 0) =>
        gen.slots = <<>>

C3_Witness ==
    /\ gen.pc = "done"
    /\ gen.startTime = S0900 /\ gen.endTime = S0900 /\ gen.slotDurationMinutes = 60
    /\ gen.slots = <<>>

(***************************************************************************)
(* Properties of the clock resolver (SpecClock).                           *)
(***************************************************************************)
\* the wall-clock minute of the day in the hook's timezone
WallMinute == (clock.now + TzOffset(clock.props.timezone)) % MinutesPerDay

InsideInclusive ==
    /\ LabelMinutes(clock.props.startTime) <= WallMinute
    /\ WallMinute <= LabelMinutes(clock.props.endTime)

\* C10: isWorkingHours (the function, and the hook's state once updateTime
\* has run) is true exactly when startTime <= now <= endTime, both bounds
\* included, for the wall-clock time of the target timezone.
C10_WorkingHoursInclusive ==
    /\ clock.fresh => (clock.isWorkHours <=> InsideInclusive)
    /\ isWorkingHours(clock.props.startTime, clock.props.endTime, clock.props.timezone,
                      clock.now) <=> InsideInclusive

\* the hook reports work hours at exactly endTime
C10_Witness ==
    /\ clock.fresh
    /\ WallMinute = LabelMinutes(clock.props.endTime)
    /\ clock.isWorkHours

(***************************************************************************)
(* Properties of the current slot (SpecClock).                             *)
(***************************************************************************)
\* the indexes of the slots whose label is not before the wall-clock minute
SlotsFromNow ==
    {i \in 1..Len(clock.props.userTimeSlots) :
        WallMinute <= LabelMinutes(clock.props.userTimeSlots[i])}

FirstSlotFromNow ==
    IF SlotsFromNow = {} THEN NullSlot
    ELSE clock.props.userTimeSlots[CHOOSE i \in SlotsFromNow : \A j \in SlotsFromNow : i <= j]

\* C11: currentTimeSlot (the hook's state once updateTime has run, and
\* getCurrentTimeSlot) is the first slot of the sequence whose label is >= the
\* current HH:MM, and null when there are no slots or every label is earlier.
C11_CurrentSlotIsFirstNotBefore ==
    /\ clock.fresh => clock.currentTimeSlot = FirstSlotFromNow
    /\ getCurrentTimeSlot(clock.props.userTimeSlots, clock.props.timezone, clock.now)
          = FirstSlotFromNow

\* between two labels the hook shows the later one
C11_Witness ==
    /\ clock.fresh
    /\ Len(clock.props.userTimeSlots) > 1
    /\ clock.currentTimeSlot = clock.props.userTimeSlots[2]
    /\ WallMinute < LabelMinutes(clock.currentTimeSlot)
    /\ WallMinute > LabelMinutes(clock.props.userTimeSlots[1])

\* the props carry the slots generated from a schedule with start < end
GeneratedSlots ==
    /\ clock.props.userTimeSlots # <<>>
    /\ LabelMinutes(clock.props.startTime) < LabelMinutes(clock.props.endTime)

\* C12: with slots generated from a valid schedule, at a time equal to a
\* slot label the current slot is that slot and isWorkingHours is true; at a
\* time equal to endTime isWorkingHours is true and the current slot is null.
C12_BoundariesConsistent ==
    (clock.fresh /\ GeneratedSlots) =>
        /\ \A i \in 1..Len(clock.props.userTimeSlots) :
              WallMinute = LabelMinutes(clock.props.userTimeSlots[i]) =>
                  /\ clock.currentTimeSlot = clock.props.userTimeSlots[i]
                  /\ clock.isWorkHours
                  /\ getCurrentTimeSlot(clock.props.userTimeSlots, clock.props.timezone,
                                        clock.now) = clock.props.userTimeSlots[i]
        /\ WallMinute = LabelMinutes(clock.props.endTime) =>
              /\ clock.isWorkHours
              /\ clock.currentTimeSlot = NullSlot
              /\ isWorkingHours(clock.props.startTime, clock.props.endTime,
                                clock.props.timezone, clock.now)

\* at exactly endTime: work hours, and no current slot
C12_Witness ==
    /\ clock.fresh
    /\ GeneratedSlots
    /\ WallMinute = LabelMinutes(clock.props.endTime)
    /\ clock.isWorkHours
    /\ clock.currentTimeSlot = NullSlot

(***************************************************************************)
(* Properties of the work-log writes (Spec).                               *)
(***************************************************************************)
RowKeys == {<<r.userId, r.date, r.timeSlot>> : r \in BagToSet(workLogs)}

RowsOfKey(k) == SumCopies(workLogs, getWorkLog(workLogs, k[1], k[2], k[3]))

\* C4: the table holds at most one row per (userId, date, timeSlot),
\* whatever write requests ran and however they interleaved.
C4_AtMostOneRowPerKey == \A k \in RowKeys : RowsOfKey(k) <= 1

NoRequestInFlight == \A p \in Procs : req[p].pc # "upsert"

\* C5: once the write requests have completed, a read of a key returns the
\* description of the write that was applied to it last.
C5_LastWriteWins ==
    NoRequestInFlight =>
        \A k \in DOMAIN lastWrite :
            \A row \in getWorkLog(workLogs, k[1], k[2], k[3]) :
                row.workDescription = lastWrite[k]

\* C6: after a completed PUT /api/work-logs/{date}/holiday with isHoliday = h,
\* every slot of the user's schedule has a row of that date with isHoliday = h.
C6_HolidayRequestMarksEverySlot ==
    \A p \in Procs :
        (req[p].pc = "done" /\ req[p].timeSlot = SHoliday /\ req[p].body.hasHoliday) =>
            LET slots == UserTimeSlots(getUserWorkPreferences(userWorkPreferences,
                                                               req[p].userId))
            IN  \A i \in 1..Len(slots) :
                    LET rows == getWorkLog(workLogs, req[p].userId, req[p].date, slots[i])
                    IN  /\ rows # {}
                        /\ \A row \in rows : row.isHoliday = req[p].body.isHoliday

(***************************************************************************)
(* Properties of the daily summary (SpecSummary, SpecAggregate).           *)
(***************************************************************************)
\* the rows the summary handled last was computed from
SummaryRows == BagToSet(getWorkLogsByDate(workLogs, response.userId, response.body.date))

SummaryPreferences == getUserWorkPreferences(userWorkPreferences, response.userId)

\* the number of slots of the user's schedule, or of the default schedule
ScheduleSlotCount ==
    IF SummaryPreferences = {} THEN 8
    ELSE LET p == CHOOSE r \in SummaryPreferences : TRUE
             duration == ParseInt(p.slotDurationMinutes)
         IN  (LabelMinutes(p.endTime) - LabelMinutes(p.startTime) + duration - 1) \div duration

ScheduleDuration ==
    IF SummaryPreferences = {} THEN 60
    ELSE ParseInt((CHOOSE r \in SummaryPreferences : TRUE).slotDurationMinutes)

NonBlank(s) == \E i \in 1..Len(s) : ~IsWhiteSpace(s[i])

\* the number of rows (copies counted) with a description that is not blank
NonBlankRows == SumCopies(workLogs, {r \in SummaryRows : NonBlank(r.workDescription)})

\* C7: the daily summary of a date with at least one holiday row is exactly
\* the holiday summary, whatever the date's other rows hold.
C7_HolidaySummary ==
    (response.kind = "dailySummary" /\ \E r \in SummaryRows : r.isHoliday) =>
        response.body = [date |-> response.body.date, totalHours |-> Num(0),
                         completedSlots |-> 0, totalSlots |-> ScheduleSlotCount,
                         completionPercentage |-> Num(0), workAreas |-> <<>>,
                         keyAccomplishments |-> <<TextHoliday>>, isHoliday |-> TRUE]

\* a holiday summary of a date that also has a described, unflagged row
C7_Witness ==
    /\ response.kind = "dailySummary"
    /\ response.body.isHoliday
    /\ \E r \in SummaryRows : r.isHoliday
    /\ \E r \in SummaryRows : ~r.isHoliday /\ NonBlank(r.workDescription)

FourOfEight ==
    << WorkLogRow("u1", D0210, S0900, DescApi, FALSE),
       WorkLogRow("u1", D0210, S1000, DescUi, FALSE),
       WorkLogRow("u1", D0210, S1100, DescApi, FALSE),
       WorkLogRow("u1", D0210, S1200, DescUi, FALSE) >>

\* C8: without a holiday row, completedSlots is the number of rows whose
\* trimmed description is non-empty, totalHours is completedSlots *
\* duration / 60 and completionPercentage is round(completedSlots /
\* totalSlots * 100); 4 described rows of 8 hourly slots give 4, 4.0 and 50.
C8_DailySummaryCounts ==
    /\ (response.kind = "dailySummary" /\ \A r \in SummaryRows : ~r.isHoliday) =>
          /\ response.body.completedSlots = NonBlankRows
          /\ response.body.totalHours = Frac(NonBlankRows * ScheduleDuration, 60)
          /\ response.body.completionPercentage =
                Num((200 * NonBlankRows + ScheduleSlotCount) \div (2 * ScheduleSlotCount))
    /\ LET example == DailySummary(D0210, FourOfEight, {})
       IN  /\ example.totalSlots = 8
           /\ example.completedSlots = 4
           /\ example.totalHours = Num(4)
           /\ example.completionPercentage = Num(50)

\* a summary that counts two described rows beside a blank one
C8_Witness ==
    /\ response.kind = "dailySummary"
    /\ ~response.body.isHoliday
    /\ response.body.completedSlots = 2
    /\ \E r \in SummaryRows : r.workDescription = DescBlank

IsDaily == response.kind = "dailySummary" /\ response.status = 200
IsEnhanced == response.kind = "enhancedSummary" /\ response.status = 200
IsBasic == response.kind = "basicSummary" /\ response.status = 200

\* the rows of the requesting user whose date is a day of the requested month
MonthPrefix ==
    NumToString(2024) \o <<45>> \o PadStart2(NumToString(3)) \o <<45>>
MonthRows ==
    {r \in BagToSet(workLogs) :
        r.userId = response.userId /\ SubSeq(r.date, 1, Len(MonthPrefix)) = MonthPrefix}
DatesOf(rows) == {r.date : r \in rows}
RowsOn(rows, date) == {r \in rows : r.date = date}
HolidayDates(rows) == {r.date : r \in {x \in rows : x.isHoliday}}

\* rows that count as done: not flagged, and a description that is not blank
Productive(rows) == {r \in rows : ~r.isHoliday /\ NonBlank(r.workDescription)}

\* the keyword groups, in their order of precedence
KeywordGroups ==
    << [area |-> "Frontend Development", keywords |-> {KwFrontend, KwReact, KwUi}],
       [area |-> "Backend Development", keywords |-> {KwBackend, KwApi, KwServer}],
       [area |-> "Code Review", keywords |-> {KwReview}],
       [area |-> "Meetings", keywords |-> {KwMeeting, KwStandup}],
       [area |-> "Documentation", keywords |-> {KwDocumentation, KwDocs}],
       [area |-> "Testing", keywords |-> {KwTesting, KwTest}],
       [area |-> "Deployment", keywords |-> {KwDeployment, KwDeploy}] >>

Areas == {KeywordGroups[g].area : g \in 1..Len(KeywordGroups)} \cup {"Other"}

GroupMatches(g, description) ==
    \E k \in KeywordGroups[g].keywords : StrIncludes(ToLowerCase(description), k)

\* the bucket of a description: its first matching group, else Other
BucketOf(description) ==
    LET matching == {g \in 1..Len(KeywordGroups) : GroupMatches(g, description)}
    IN  IF matching = {} THEN "Other"
        ELSE KeywordGroups[CHOOSE g \in matching : \A h \in matching : g <= h].area

\* the number of done rows (copies counted) of a bucket
Tally(rows, area) ==
    SumCopies(workLogs, {r \in Productive(rows) : BucketOf(r.workDescription) = area})

\* the count a list of work areas reports for a bucket (0: not listed)
Reported(list, area) ==
    IF \E i \in 1..Len(list) : list[i].area = area
    THEN (list[CHOOSE i \in 1..Len(list) : list[i].area = area]).hours
    ELSE 0

ListedOnce(list) == \A i, j \in 1..Len(list) : list[i].area = list[j].area => i = j

ProductiveRows == SumCopies(workLogs, Productive(MonthRows))

\* C14: in the monthly summaries totalDays is the number of distinct dates
\* with an entry, holidayDays the number of distinct dates with a
\* holiday-flagged entry, and workingDays = totalDays - holidayDays >= 0.
C14_DayCounts ==
    (IsEnhanced \/ IsBasic) =>
        /\ response.body.totalDays = Cardinality(DatesOf(MonthRows))
        /\ response.body.holidayDays = Cardinality(HolidayDates(MonthRows))
        /\ response.body.workingDays = response.body.totalDays - response.body.holidayDays
        /\ response.body.workingDays >= 0
        /\ response.body.holidayDays <= response.body.totalDays

\* three dates, one of them a holiday by one flagged row beside an unflagged one
C14_Witness ==
    /\ IsEnhanced
    /\ response.body.totalDays = 3
    /\ response.body.holidayDays = 1
    /\ response.body.workingDays = 2
    /\ \E r \in MonthRows : ~r.isHoliday /\ r.date \in HolidayDates(MonthRows)

\* one holiday date and one date with 3 done rows of 8 hourly slots
HolidayAndThree ==
    << WorkLogRow("u1", D0301, S0900, DescEmpty, TRUE),
       WorkLogRow("u1", D0302, S0900, DescApi, FALSE),
       WorkLogRow("u1", D0302, S1000, DescUi, FALSE),
       WorkLogRow("u1", D0302, S1100, DescApi, FALSE) >>

\* C15: totalProductiveHours is the number of unflagged entries with a
\* non-empty trimmed description times slotDurationMinutes / 60;
\* averageHoursPerDay is totalProductiveHours / workingDays rounded to one
\* decimal when workingDays > 0, else 0; a holiday date plus a date with 3
\* done hourly slots give 2, 1, 1, 3.0 and 3.0.
C15_ProductiveHours ==
    /\ (IsEnhanced \/ IsBasic) =>
          /\ response.body.totalProductiveHours = Frac(ProductiveRows * ScheduleDuration, 60)
          /\ response.body.averageHoursPerDay =
                IF response.body.workingDays > 0
                THEN Frac((2 * ProductiveRows * ScheduleDuration + 6 * response.body.workingDays)
                             \div (12 * response.body.workingDays), 10)
                ELSE Num(0)
    /\ LET example == EnhancedSummary(2024, 3, HolidayAndThree, {})
       IN  /\ example.totalDays = 2
           /\ example.holidayDays = 1
           /\ example.workingDays = 1
           /\ example.totalProductiveHours = Num(3)
           /\ example.averageHoursPerDay = Num(3)

\* a month with a flagged row that has a description, and an average that
\* is rounded: 5 done quarter-hour slots over 2 working days, 0.625 -> 0.6
C15_Witness ==
    /\ IsEnhanced
    /\ \E r \in MonthRows : r.isHoliday /\ NonBlank(r.workDescription)
    /\ response.body.workingDays = 2
    /\ ProductiveRows = 5
    /\ response.body.totalProductiveHours = Frac(5, 4)
    /\ response.body.averageHoursPerDay = Frac(6, 10)

\* round(count / S * 100), S = 0 taken as 1
PercentageOfSlots(count, slots) ==
    LET denominator == IF slots = 0 THEN 1 ELSE slots
    IN  Num((200 * count + denominator) \div (2 * denominator))

\* C16: topWorkAreas holds at most 6 buckets in descending order of count,
\* and each percentage is round(count / S * 100) with S the number of done
\* unflagged slots of the month (0 taken as 1), for every slot duration, so
\* no percentage exceeds 100.
C16_TopWorkAreaPercentages ==
    (IsEnhanced \/ IsBasic) =>
        LET top == response.body.topWorkAreas
        IN  /\ Len(top) <= 6
            /\ \A i, j \in 1..Len(top) : i < j => top[i].hours >= top[j].hours
            /\ \A i \in 1..Len(top) :
                  /\ top[i].percentage = PercentageOfSlots(top[i].hours, ProductiveRows)
                  /\ top[i].percentage.tag = "num"
                  /\ top[i].percentage.n <= 100 * top[i].percentage.d

\* the expected rollup of a date of the month
NonBlankOn(date) ==
    SumCopies(workLogs, {r \in RowsOn(MonthRows, date) : NonBlank(r.workDescription)})
RollupHours(date) ==
    IF date \in HolidayDates(MonthRows) THEN Num(0)
    ELSE Frac(NonBlankOn(date) * ScheduleDuration, 60)
RollupPercentage(date) ==
    IF date \in HolidayDates(MonthRows) THEN Num(0)
    ELSE Num((200 * NonBlankOn(date) + ScheduleSlotCount) \div (2 * ScheduleSlotCount))

\* a before b in the ranking: more hours, or equal hours and the earlier date
RankedBefore(a, b) ==
    \/ NumLt(b.hours, a.hours)
    \/ a.hours = b.hours /\ StrLt(a.date, b.date)

FiveOrFewer(n) == IF n < 5 THEN n ELSE 5

\* C17: mostProductiveDays is the per-date rollups (date, hours,
\* completionPercentage) sorted by hours, descending, dates of equal hours in
\* ascending date order, cut to the first 5.
C17_MostProductiveDays ==
    IsEnhanced =>
        LET days == response.body.mostProductiveDays
            ranked == {days[i].date : i \in 1..Len(days)}
        IN  /\ Len(days) = FiveOrFewer(Cardinality(DatesOf(MonthRows)))
            /\ \A i \in 1..Len(days) :
                  /\ days[i].date \in DatesOf(MonthRows)
                  /\ days[i].hours = RollupHours(days[i].date)
                  /\ days[i].completionPercentage = RollupPercentage(days[i].date)
            /\ \A i, j \in 1..Len(days) : i < j => RankedBefore(days[i], days[j])
            /\ \A d \in DatesOf(MonthRows) \ ranked :
                  \A i \in 1..Len(days) :
                      RankedBefore(days[i], [date |-> d, hours |-> RollupHours(d)])

\* six dates, five of them with equal hours: the last of them is cut
C17_Witness ==
    /\ IsEnhanced
    /\ Cardinality(DatesOf(MonthRows)) = 6
    /\ Len(response.body.mostProductiveDays) = 5
    /\ response.body.mostProductiveDays[1].date = D0301
    /\ response.body.mostProductiveDays[2].date = D0302
    /\ response.body.mostProductiveDays[2].hours = response.body.mostProductiveDays[5].hours
    /\ response.body.mostProductiveDays[5].date = D0305

\* C18: each date's rollup in the monthly summary has hours = (the date's
\* non-empty entries) * slotDurationMinutes / 60 and completionPercentage =
\* round(that count / generated slots * 100); a date with a holiday-flagged
\* entry has 0 hours and 0 percent.
C18_DailyRollups ==
    IsEnhanced =>
        LET days == response.body.dailySummaries
        IN  /\ {days[i].date : i \in 1..Len(days)} = DatesOf(MonthRows)
            /\ Len(days) = Cardinality(DatesOf(MonthRows))
            /\ \A i \in 1..Len(days) :
                  /\ days[i].totalHours = RollupHours(days[i].date)
                  /\ days[i].completionPercentage = RollupPercentage(days[i].date)

\* a holiday date with a described, unflagged row beside a working date
C18_Witness ==
    /\ IsEnhanced
    /\ \E i, j \in 1..Len(response.body.dailySummaries) :
          /\ response.body.dailySummaries[i].date \in HolidayDates(MonthRows)
          /\ \E r \in Productive(RowsOn(MonthRows, response.body.dailySummaries[i].date)) : TRUE
          /\ response.body.dailySummaries[i].totalHours = Num(0)
          /\ response.body.dailySummaries[j].totalHours = Frac(3, 2)
          /\ response.body.dailySummaries[j].completionPercentage = Num(19)

\* the descriptions of the rows whose trimmed description is longer than n
LongerThan(rows, n) ==
    {r.workDescription : r \in {x \in rows : Len(Trim(x.workDescription)) > n}}

Elements(list) == {list[i] : i \in 1..Len(list)}

NoDuplicates(list) == \A i, j \in 1..Len(list) : list[i] = list[j] => i = j

AtMost(n, cap) == IF n < cap THEN n ELSE cap

\* C19: the key accomplishments are the descriptions of the non-empty
\* entries whose trimmed length is more than 10 (daily) or 15 (monthly),
\* without duplicates, and at most 5 (daily) or 10 (monthly) of them.
C19_KeyAccomplishments ==
    /\ (IsDaily /\ ~response.body.isHoliday) =>
          LET list == response.body.keyAccomplishments
          IN  /\ Elements(list) \subseteq LongerThan(SummaryRows, 10)
              /\ NoDuplicates(list)
              /\ Len(list) = AtMost(Cardinality(LongerThan(SummaryRows, 10)), 5)
    /\ IsEnhanced =>
          LET list == response.body.keyAccomplishments
          IN  /\ Elements(list) \subseteq LongerThan(Productive(MonthRows), 15)
              /\ NoDuplicates(list)
              /\ Len(list) = AtMost(Cardinality(LongerThan(Productive(MonthRows), 15)), 10)

RECURSIVE SumOfHours(_)
SumOfHours(list) == IF list = <<>> THEN 0 ELSE Head(list).hours + SumOfHours(Tail(list))

\* C20: in the daily summary of a date without a holiday entry, workAreas
\* lists every bucket with a non-zero tally once, in descending order of
\* count, each with percentage = round(count / completedSlots * 100), and
\* the counts add up to completedSlots.
C20_DailyWorkAreas ==
    (IsDaily /\ ~response.body.isHoliday) =>
        LET list == response.body.workAreas
        IN  /\ ListedOnce(list)
            /\ \A area \in Areas : Reported(list, area) = Tally(SummaryRows, area)
            /\ \A i \in 1..Len(list) :
                  /\ list[i].hours >= 1
                  /\ list[i].percentage =
                        Num((200 * list[i].hours + response.body.completedSlots)
                               \div (2 * response.body.completedSlots))
            /\ \A i, j \in 1..Len(list) : i < j => list[i].hours >= list[j].hours
            /\ SumOfHours(list) = response.body.completedSlots

\* two buckets: Backend Development with 2 of 3, Frontend Development with 1
C20_Witness ==
    /\ IsDaily
    /\ ~response.body.isHoliday
    /\ response.body.completedSlots = 3
    /\ response.body.workAreas =
          << [area |-> "Backend Development", hours |-> 2, percentage |-> Num(67)],
             [area |-> "Frontend Development", hours |-> 1, percentage |-> Num(33)] >>

(***************************************************************************)
(* Properties of the month query (SpecRange).                              *)
(***************************************************************************)
IsLeapYear(year) == (year % 4 = 0 /\ year % 100 # 0) \/ year % 400 = 0

\* the number of days of a calendar month
DaysInMonth(year, month) ==
    IF month = 2 THEN (IF IsLeapYear(year) THEN 29 ELSE 28)
    ELSE IF month \in {4, 6, 9, 11} THEN 30 ELSE 31

\* the user's rows dated on a day of the calendar month
CalendarMonthRows(userId, year, month) ==
    {r \in BagToSet(workLogs) :
        /\ r.userId = userId
        /\ \E day \in 1..DaysInMonth(year, month) : r.date = DateOf(year, month, day)}

IsMonthQuery == response.kind = "monthlyWorkLogs"

\* the rows of a month query are the user's rows of the calendar month
MonthQueryRows ==
    IsMonthQuery =>
        BagToSet(response.body.rows)
            = CalendarMonthRows(response.userId, response.body.year, response.body.month)

\* C21: getMonthlyWorkLogs returns exactly the user's rows of the calendar
\* month, and the range it queries runs from the first day of the month to
\* the calendar-correct last day of the month (28, 29, 30 or 31).
C21_MonthQueryEndpoints ==
    IsMonthQuery =>
        /\ BagToSet(response.body.rows)
              = CalendarMonthRows(response.userId, response.body.year, response.body.month)
        /\ response.body.startDate = DateOf(response.body.year, response.body.month, 1)
        /\ response.body.endDate =
              DateOf(response.body.year, response.body.month,
                     DaysInMonth(response.body.year, response.body.month))

(***************************************************************************)
(* Properties of the work-preferences routes (SpecPreferences).            *)
(***************************************************************************)
\* a stored or requested schedule that obeys the rule of the ScheduleConfig:
\* both times are clock times of one day, the start is the earlier one, and
\* the duration is "15", "30" or "60"
ObeysScheduleRule(config) ==
    /\ IsLabel(config.startTime) /\ IsLabel(config.endTime)
    /\ LabelMinutes(config.startTime) < LabelMinutes(config.endTime)
    /\ config.slotDurationMinutes \in {<<49, 53>>, <<51, 48>>, <<54, 48>>}

IsPut == response.kind = "putWorkPreferences"

\* C22: every stored schedule has startTime < endTime and a duration of 15,
\* 30 or 60 minutes, and generates at least one slot; a PUT whose body breaks
\* that rule is answered with 400, and a PUT answered with 400 leaves the
\* stored preferences as they were.
C22_StoredScheduleValid ==
    /\ [](\A row \in userWorkPreferences :
             /\ ObeysScheduleRule(row)
             /\ Len(UserTimeSlots({row})) >= 1)
    /\ []((IsPut /\ ~ObeysScheduleRule(response.request)) => response.status = 400)
    /\ [][(response'.kind = "putWorkPreferences" /\ response'.status = 400)
             => userWorkPreferences' = userWorkPreferences]_vars

\* a stored schedule, and a PUT with the end before the start that was refused
C22_Witness ==
    /\ IsPut /\ response.status = 400
    /\ IsLabel(response.request.startTime) /\ IsLabel(response.request.endTime)
    /\ LabelMinutes(response.request.endTime) < LabelMinutes(response.request.startTime)
    /\ \E row \in userWorkPreferences : row.userId = response.userId

(***************************************************************************)
(* Properties of the holiday toggle beside a read (SpecToggle).            *)
(***************************************************************************)
IsRead == response.kind = "workLogsByDate"

\* the rows a read returned for the slots of the user's schedule
ReadSlotRows ==
    LET slots == UserTimeSlots(getUserWorkPreferences(userWorkPreferences, response.userId))
    IN  {r \in BagToSet(response.body.rows) : Includes(slots, r.timeSlot)}

IsPutWorkLog == response.kind = "putWorkLog"

\* the schedule in force: the user's stored one, or 09:00-17:00 / 60
ScheduleInForce(userId) ==
    LET stored == getUserWorkPreferences(userWorkPreferences, userId)
    IN  IF stored = {}
        THEN [start |-> 9 * 60, end |-> 17 * 60, duration |-> 60]
        ELSE LET p == CHOOSE r \in stored : TRUE
             IN  [start |-> LabelMinutes(p.startTime), end |-> LabelMinutes(p.endTime),
                  duration |-> ParseInt(p.slotDurationMinutes)]

\* the label is one of the slots the schedule generates
IsSlotOf(schedule, label) ==
    /\ IsLabel(label)
    /\ schedule.start <= LabelMinutes(label) /\ LabelMinutes(label) < schedule.end
    /\ (LabelMinutes(label) - schedule.start) % schedule.duration = 0

\* C24: a PUT of a work log whose timeSlot the user's current schedule (or
\* the default one) does not generate is answered with 400, and a PUT
\* answered with 400 creates or changes no row.
C24_InvalidSlotRejected ==
    /\ []((IsPutWorkLog /\ ~IsSlotOf(ScheduleInForce(response.userId), response.timeSlot))
             => response.status = 400)
    /\ [][(response'.kind = "putWorkLog" /\ response'.status = 400)
             => workLogs' = workLogs]_vars

\* a refused PUT to a row that was written before the schedule changed
C24_Witness ==
    /\ IsPutWorkLog /\ response.status = 400
    /\ IsLabel(response.timeSlot)
    /\ getWorkLog(workLogs, response.userId, response.date, response.timeSlot) # {}

\* a percentage: a number from 0 to 100
IsPercentage(x) == x.tag = "num" /\ ~NumLt(x, Num(0)) /\ ~NumLt(Num(100), x)

\* C25: whatever writes and schedule changes came before, the daily summary
\* has completedSlots <= totalSlots and a completionPercentage from 0 to 100,
\* and every per-date rollup of the enhanced monthly summary has a
\* completionPercentage from 0 to 100.
C25_SummaryWithinBounds ==
    /\ response.kind = "dailySummary" =>
          /\ response.body.completedSlots <= response.body.totalSlots
          /\ IsPercentage(response.body.completionPercentage)
    /\ IsEnhanced =>
          \A i \in 1..Len(response.body.dailySummaries) :
              IsPercentage(response.body.dailySummaries[i].completionPercentage)

(***************************************************************************)
(* Properties of the per-date entries of the enhanced summary              *)
(* (SpecMonthly).                                                          *)
(***************************************************************************)
\* C26: a per-date entry of dailySummaries has isHoliday = true exactly when
\* one of the date's rows is holiday-flagged, so the entries with isHoliday =
\* true are holidayDays many; a working date whose rows all have empty
\* descriptions has isHoliday = false.
C26_HolidayFlagOfDate ==
    IsEnhanced =>
        LET days == response.body.dailySummaries
        IN  /\ \A i \in 1..Len(days) :
                  days[i].isHoliday <=> (days[i].date \in HolidayDates(MonthRows))
            /\ Cardinality({i \in 1..Len(days) : days[i].isHoliday})
                  = response.body.holidayDays

\* C27: completedSlots of a per-date entry of dailySummaries is the number of
\* the date's rows with a non-empty trimmed description, and 0 on a holiday
\* date, for the durations 15, 30 and 60.
C27_CompletedSlotsOfDate ==
    IsEnhanced =>
        LET days == response.body.dailySummaries
        IN  \A i \in 1..Len(days) :
                days[i].completedSlots =
                    IF days[i].date \in HolidayDates(MonthRows) THEN Num(0)
                    ELSE Num(NonBlankOn(days[i].date))

\* C28: no date of mostProductiveDays has a holiday-flagged row.
C28_NoHolidayInMostProductive ==
    IsEnhanced =>
        \A i \in 1..Len(response.body.mostProductiveDays) :
            response.body.mostProductiveDays[i].date \notin HolidayDates(MonthRows)

\* the sum of two numbers
JsAdd(a, b) == Frac(a.n * b.d + b.n * a.d, a.d * b.d)
RECURSIVE SumOfTotalHours(_)
SumOfTotalHours(days) ==
    IF days = <<>> THEN Num(0) ELSE JsAdd(Head(days).totalHours, SumOfTotalHours(Tail(days)))

\* C29: totalProductiveHours is the sum of the hours of the per-date rollups
\* in dailySummaries, also when only some rows of a date are holiday-flagged.
C29_TotalIsSumOfRollups ==
    IsEnhanced =>
        response.body.totalProductiveHours = SumOfTotalHours(response.body.dailySummaries)

(***************************************************************************)
(* Properties of the password reset (SpecAuth).                            *)
(***************************************************************************)
ResetCalls == {p \in Procs : auth.calls[p].op = "resetPassword"}

\* two resetPassword calls with one token that both returned successfully
BothSucceeded ==
    \E p, q \in ResetCalls :
        /\ p # q
        /\ auth.calls[p].token = auth.calls[q].token
        /\ auth.calls[p].pc = "done" /\ auth.calls[p].result = MsgReset
        /\ auth.calls[q].pc = "done" /\ auth.calls[q].result = MsgReset

\* C30: a reset token changes a password at most once: a resetPassword call
\* that starts after a call with the same token has succeeded fails with
\* "This reset token has already been used" without an update of the
\* password, two calls with one token never both succeed, and when a
\* forgotPassword call has returned, none of the tokens the user had when it
\* began is left.
C30_TokenResetsOnce ==
    /\ \A t \in Tokens : auth.changes[t] <= 1
    /\ \A p \in ResetCalls :
          auth.calls[p].afterSuccess =>
              auth.calls[p].pc = "done" /\ auth.calls[p].result = MsgUsed
    /\ ~BothSucceeded
    /\ \A p \in Procs :
          (auth.calls[p].op = "forgotPassword" /\ auth.calls[p].pc = "done") =>
              \A r \in auth.tokens : r.token \notin auth.calls[p].earlier

====
